---- MODULE Spec2Model ----
(***************************************************************************)
(* A model of the Bitget exchange client of the repository:                *)
(*   - Base.make_request / Base._sync_time      (libs/exchanger/bitget)    *)
(*   - Asset and Subaccount resource clients    (libs/exchanger/bitget)    *)
(*   - BitgetActions workflow layer             (utils/exchanger/bitget)   *)
(* Every network round trip (an await on async_get / async_post) is one    *)
(* step; the exchange's answer to it is chosen nondeterministically.       *)
(*                                                                         *)
(* Conventions.  Python None and an absent key are NONE (NoStr for a chain *)
(* name).  A JSON response is a record [kind, code, msg, data, status];    *)
(* kind "exc" is an exception raised by the HTTP helper, "nondict" a       *)
(* decoded value that is not a dict.  Timestamps are integers (str(int) is *)
(* injective); amounts are integers of a smallest unit; a chain name is a  *)
(* sequence of one-character strings; a subaccount id is a positive        *)
(* integer, 0 standing for "no subaccount given".                          *)
(* request_params (libs/eth_async) only drops None-valued keys; the bodies *)
(* below are built without them.                                           *)
(***************************************************************************)
EXTENDS Integers, Sequences, FiniteSets, TLC

\* ------------------------------------------------------------- bounds
MaxNow == 2      \* ticks of the local clock
MaxCalls == 2    \* direct calls of make_request or of Asset.transfer
MaxActions == 1  \* calls of BitgetActions operations
MaxSubs == 3     \* subaccounts the exchange lists
MaxBal == 2      \* largest available balance

\* ------------------------------------------------------------ values
NONE == "<none>"
NoStr == <<NONE>>
NoStatus == 0
HttpStatuses == {NoStatus, 503}
Instances == {"asset", "subaccount"}
GET == "GET"
POST == "POST"

\* what the time endpoint can make int(server_ms) - now_ms come out as
Skews == {0, 1}

\* request parameters (the body dict handed to make_request)
Params(tag, coin, sub, uid, amount, chain, addr) ==
    [tag |-> tag, coin |-> coin, sub |-> sub, uid |-> uid, amount |-> amount,
     chain |-> chain, addr |-> addr]
EmptyParams == Params("", "", 0, NONE, 0, <<>>, "")

\* response payloads (the "data" of a response): one record shape for all
NoReceipt == [withdrawalId |-> NONE, orderId |-> NONE, clientOid |-> NONE]
Data(tag, uid, rows, coins, receipt) ==
    [tag |-> tag, uid |-> uid, rows |-> rows, coins |-> coins, receipt |-> receipt,
     records |-> <<>>]
NoData == Data("absent", NONE, <<>>, <<>>, NoReceipt)
Payload(tag) == Data(tag, NONE, <<>>, <<>>, NoReceipt)
DataRecords(records) == [Payload("records") EXCEPT !.records = records]

Resp(kind, code, msg, data, status) ==
    [kind |-> kind, code |-> code, msg |-> msg, data |-> data, status |-> status]
NoResponse == Resp("none", NONE, NONE, NoData, NoStatus)

\* str(x) of Python for a code that may be None
Str(x) == IF x = NONE THEN "None" ELSE x

\* ------------------------------------------------------ exceptions.py
\* APIException.__init__: code and msg are taken from the response only when
\* the response is a non-empty dict holding both keys.
APIException(response, status_code) ==
    LET has == response.kind = "dict" /\ response.code # NONE /\ response.msg # NONE
    IN [type |-> "APIException",
        response |-> response,
        status_code |-> status_code,
        code |-> IF has THEN response.code ELSE NONE,
        msg |-> IF has THEN response.msg ELSE NONE]

\* an exception of Python itself (AttributeError, TypeError)
PyError(type) ==
    [type |-> type, response |-> NoResponse, status_code |-> NoStatus,
     code |-> NONE, msg |-> NONE]
NoExc == PyError("")

Raise(exc) == [kind |-> "raise", value |-> NoResponse, exc |-> exc]
Return(r) == [kind |-> "return", value |-> r, exc |-> NoExc]
Pending == [kind |-> "pending", value |-> NoResponse, exc |-> NoExc]

\* ---------------------------------------------------------- Base.py
SuccessCode == "00000"
StaleCode == "40008"
OtherCode == "40001"

\* Base.make_request line 177: the retry condition
IsStaleMut(code) == Str(code) # SuccessCode
IsStale(code) == Str(code) = StaleCode

\* Base._timestamp_with_offset
TimestampWithOffset(nowMs, off) == nowMs + off

\* Base.generate_sign: HMAC over timestamp + method + path + body, kept
\* symbolic as the message signed.  Lines 94-98: a falsy body is signed as "",
\* a dict body as json.dumps(body) with the default (spaced) separators.
GenerateSign(timestamp, method, request_path, body) ==
    [ts |-> timestamp, method |-> method, path |-> request_path,
     body |-> IF body.enc = "empty" THEN [enc |-> "empty", of |-> EmptyParams]
              ELSE IF body.enc = "dict" THEN [enc |-> "json-spaced", of |-> body.of]
              ELSE body]

\* Base.make_request lines 122-140: path and body as transmitted and signed
RequestPath(method, path, params) ==
    IF method = GET /\ params # EmptyParams THEN [base |-> path, query |-> params]
    ELSE [base |-> path, query |-> EmptyParams]
\* the body sent as it was given, whatever the method
BodyToSendMut(method, params) == [enc |-> "json", of |-> params]
BodyToSend(method, params) ==
    IF method = GET THEN [enc |-> "empty", of |-> EmptyParams]
    ELSE [enc |-> "json", of |-> params]
\* the body handed to generate_sign without being serialised first
BodyStrForSignMut(method, params) ==
    IF method = GET THEN [enc |-> "empty", of |-> EmptyParams]
    ELSE [enc |-> "dict", of |-> params]
\* lines 130-140: body_str_for_sign, "" for GET and the compact JSON otherwise
BodyStrForSign(method, params) ==
    IF method = GET THEN [enc |-> "empty", of |-> EmptyParams]
    ELSE [enc |-> "json", of |-> params]

\* a transport failure reported without its message
TransportErrorResponseMut(r) == Resp("dict", "transport_error", NONE, NoData, NoStatus)

\* the response make_request puts into the exception for a transport failure
TransportErrorResponse(r) == Resp("dict", "transport_error", r.msg, NoData, NoStatus)

\* Base.make_request lines 163-178 and 207-210: handling of the first response
AfterFirstResponse(r) ==
    IF r.kind = "exc"
    THEN [next |-> "done", result |-> Raise(APIException(TransportErrorResponse(r), r.status))]
    ELSE IF r.kind # "dict"
    THEN [next |-> "done", result |-> Raise(APIException(NoResponse, NoStatus))]
    ELSE IF r.code = NONE THEN [next |-> "done", result |-> Return(r)]
    ELSE IF IsStale(r.code) THEN [next |-> "resync", result |-> Pending]
    ELSE IF Str(r.code) # SuccessCode
    THEN [next |-> "done", result |-> Raise(APIException(r, NoStatus))]
    ELSE [next |-> "done", result |-> Return(r)]

\* a retry whose code is never re-read after the retransmission
AfterRetryResponseMut(r) ==
    IF r.kind = "exc"
    THEN [next |-> "done", result |-> Raise(APIException(TransportErrorResponse(r), r.status))]
    ELSE IF r.kind # "dict"
    THEN [next |-> "done", result |-> Raise(APIException(NoResponse, NoStatus))]
    ELSE [next |-> "done", result |-> Raise(APIException(r, NoStatus))]

\* Base.make_request lines 198-210: handling of the retry's response
AfterRetryResponse(r) ==
    IF r.kind = "exc"
    THEN [next |-> "done", result |-> Raise(APIException(TransportErrorResponse(r), r.status))]
    ELSE IF r.kind # "dict"
    THEN [next |-> "done", result |-> Raise(APIException(NoResponse, NoStatus))]
    ELSE IF Str(r.code) # SuccessCode
    THEN [next |-> "done", result |-> Raise(APIException(r, NoStatus))]
    ELSE [next |-> "done", result |-> Return(r)]

\* Base._sync_time lines 57-71: the offset after one query of the time endpoint;
\* a failed query or a response without a server time leaves it as it was
TimeAnswers == {[ok |-> TRUE, skew |-> s] : s \in Skews} \cup {[ok |-> FALSE, skew |-> 0]}
SyncedOffset(old, t) == IF t.ok THEN t.skew ELSE old

\* Base.make_request line 118: the lazy initial synchronisation
NeedsInitialSync(off) == off = 0

\* -------------------------------------------------- bitget/models.py
\* BitgetCredentials.completely_filled
Credentials == [api_key : {"", "k"}, secret_key : {"", "s"}, passphrase : {"", "p"}]
CompletelyFilledMut(c) == c.api_key # "" \/ c.secret_key # "" \/ c.passphrase # ""
CompletelyFilled(c) == c.api_key # "" /\ c.secret_key # "" /\ c.passphrase # ""

\* ------------------------------------------------ endpoints (paths)
GenericPath == "/api/v2/generic"
InfoPath == "/api/v2/spot/account/info"
TransferPath == "/api/v2/spot/wallet/transfer"
SubTransferPath == "/api/v2/spot/wallet/subaccount-transfer"
SubAssetsPath == "/api/v2/spot/account/subaccount-assets"
CoinsPath == "/api/v2/spot/public/coins"
WithdrawalPath == "/api/v2/spot/wallet/withdrawal"
HistoryPath == "/api/v2/spot/wallet/withdrawal-records"

\* ----------------------------------------- subaccount/Subaccount.py
\* a row of the subaccount-assets listing: the subaccount, whether its asset
\* list has an ETH item, and that item's available balance
Row(id, hasEth, avail) == [id |-> id, hasEth |-> hasEth, avail |-> avail]
RowShapes(id) ==
    {Row(id, FALSE, 0)} \cup {Row(id, TRUE, a) : a \in 0..MaxBal}

\* Subaccount.list lines 42-50: the ids of the rows, in order
SubaccountList(response) ==
    [k \in 1..Len(response.data.rows) |-> response.data.rows[k].id]

\* a variant of asset_balances that does not filter the rows by subaccount
AssetBalancesMut(response, subAcct) ==
    LET rows == response.data.rows
    IN IF rows = <<>> THEN <<>>
       ELSE IF rows[1].hasEth THEN <<rows[1].avail>> ELSE <<>>

\* Subaccount.asset_balances lines 76-97 with FundingToken.availBal: the ETH
\* balances of the first row of the subaccount (none when it has no ETH item)
AssetBalances(response, subAcct) ==
    LET rows == response.data.rows
        hits == {k \in 1..Len(rows) : rows[k].id = subAcct}
    IN IF hits = {} THEN <<>>
       ELSE LET k == CHOOSE m \in hits : \A n \in hits : m <= n
            IN IF rows[k].hasEth THEN <<rows[k].avail>> ELSE <<>>

\* ---------------------------------------------------- asset/Asset.py
\* Asset._get_master_uid line 44: is the cached user id used
HasCachedUid(uid) == uid # NONE /\ uid # ""

\* Asset._get_master_uid lines 51-57: the user id taken from the response;
\* a "data" that is a list has no .get and raises AttributeError
MasterUidOf(response) ==
    IF response.data.tag = "list" THEN [raises |-> TRUE, uid |-> ""]
    ELSE IF response.data.tag = "info" /\ response.data.uid # NONE
    THEN [raises |-> FALSE, uid |-> response.data.uid]
    ELSE [raises |-> FALSE, uid |-> ""]

\* Asset.transfer lines 364-386: endpoint and body
TransferRequestPath(subAcct) == IF subAcct # 0 THEN SubTransferPath ELSE TransferPath
TransferBody(amount, subAcct, master_uid) ==
    IF subAcct # 0 THEN Params("subaccount-transfer", "ETH", subAcct, master_uid, amount, <<>>, "")
    ELSE Params("transfer", "ETH", 0, NONE, amount, <<>>, "")

\* Transfer(data=response.get("data")) and WithdrawalToken(data=...): a response
\* without "data" gives None, whose .get raises AttributeError
DecodeRecord(response) ==
    IF response.data.tag = "absent" THEN Raise(PyError("AttributeError"))
    ELSE Return(response)

\* Asset.currencies lines 96-99: the coins of the response, keyed by "coin"
\* (a later entry of the same coin replaces an earlier one)
FindCoin(coins, key) ==
    LET hits == {k \in 1..Len(coins) : coins[k].coin = key}
    IN IF hits = {} THEN <<>>
       ELSE <<coins[CHOOSE m \in hits : \A n \in hits : n <= m]>>

\* Asset.withdrawal lines 296-302: the body of a withdrawal request
WithdrawalBody(token_symbol, amount, toAddr, chain) ==
    Params("withdrawal", token_symbol, 0, NONE, amount, chain, toAddr)

\* ------------------------------------------ utils/exchanger/bitget.py
\* characters of the chain names of the model
LowerChars == {"a", "b", "o"}
UpperChars == {"A", "B", "O"}
DigitChars == {"1"}
ToLower(c) ==
    CASE c = "A" -> "a" [] c = "B" -> "b" [] c = "O" -> "o" [] OTHER -> c
IsAlnum(c) == c \in LowerChars \cup UpperChars \cup DigitChars

\* _norm (line 344): lowercase, alphanumeric characters only; "" for a non-string
Norm(x) ==
    IF x = NoStr THEN <<>>
    ELSE SelectSeq([k \in 1..Len(x) |-> ToLower(x[k])], IsAlnum)

\* Python's "needle in hay" on strings
Contains(hay, needle) ==
    \E i \in 0..(Len(hay) - Len(needle)) : SubSeq(hay, i + 1, i + Len(needle)) = needle

\* a chain entry of a currency: its alias fields (absent: NoStr)
ChainEntry(chain, chainName, network, name, symbol, chainSymbol, withdrawChain, displayName) ==
    [chain |-> chain, chainName |-> chainName, network |-> network, name |-> name,
     symbol |-> symbol, chainSymbol |-> chainSymbol, withdrawChain |-> withdrawChain,
     displayName |-> displayName,
     minWithdrawAmount |-> NONE, minWithdraw |-> NONE, withdrawFee |-> NONE, wdFee |-> NONE]
IsStr(x) == x # NoStr
Truthy(x) == x # NoStr /\ x # <<>>

\* lines 365-375: the alias names of a chain entry that are strings
Names(c) ==
    SelectSeq(<<c.chain, c.chainName, c.network, c.name, c.symbol, c.chainSymbol,
                c.withdrawChain, c.displayName>>, IsStr)

\* a match on the raw alias names alone
ChainMatchesMut(c, want) == \E k \in 1..Len(Names(c)) : Names(c)[k] = want

\* line 376: equality or containment, in either direction, after _norm
ChainMatches(c, want) ==
    \E k \in 1..Len(Names(c)) :
        LET n == Norm(Names(c)[k])
        IN n = want \/ Contains(n, want) \/ Contains(want, n)

\* line 377: the canonical name returned for a matched entry
FirstTruthy(xs, default) ==
    LET hits == {k \in 1..Len(xs) : Truthy(xs[k])}
    IN IF hits = {} THEN default ELSE xs[CHOOSE m \in hits : \A n \in hits : m <= n]
CanonicalName(c) ==
    FirstTruthy(<<c.chainName, c.displayName, c.withdrawChain, c.chain, c.network>>,
                Names(c)[1])

\* token_symbol.upper() / .lower() on the symbols of the model
UpperSym(sym) == IF sym = "eth" THEN "ETH" ELSE sym
LowerSym(sym) == IF sym = "ETH" THEN "eth" ELSE sym

\* _resolve_chain_name lines 353-378, from the coins asset.currencies returned
ResolveInCoins(coins, token_symbol, want) ==
    LET sym == UpperSym(token_symbol)
        info == IF FindCoin(coins, sym) # <<>> THEN FindCoin(coins, sym)
                ELSE FindCoin(coins, LowerSym(sym))
    IN IF info = <<>> THEN NoStr
       ELSE LET chains == info[1].chains
                hits == {k \in 1..Len(chains) : ChainMatches(chains[k], want)}
            IN IF hits = {} THEN NoStr
               ELSE CanonicalName(chains[CHOOSE m \in hits : \A n \in hits : m <= n])

\* get_minimal_withdrawal lines 158-192 and get_withdrawal_fee lines 225-258:
\* the chain entry selected for the user's chain, <<>> when there is none
SelectChain(coins, token_symbol, want) ==
    LET sym == UpperSym(token_symbol)
        info == IF FindCoin(coins, sym) # <<>> THEN FindCoin(coins, sym)
                ELSE FindCoin(coins, LowerSym(sym))
    IN IF info = <<>> THEN <<>>
       ELSE LET chains == info[1].chains
                hits == {k \in 1..Len(chains) : ChainMatches(chains[k], want)}
            IN IF hits = {} THEN <<>>
               ELSE <<chains[CHOOSE m \in hits : \A n \in hits : m <= n]>>

\* float(val) on the field values of the model: None when it raises
NumericTexts == {"0.1", "0.2"}
FloatOf(val) == IF val \in NumericTexts THEN val ELSE NONE

\* lines 194-205 and 260-273: the first field of the list that is present
\* and is a number
FirstNumber(vals) ==
    LET hits == {k \in 1..Len(vals) : vals[k] # NONE /\ FloatOf(vals[k]) # NONE}
    IN IF hits = {} THEN NONE ELSE FloatOf(vals[CHOOSE m \in hits : \A n \in hits : m <= n])
MinimalFields(c) == <<c.minWithdrawAmount, c.minWithdraw>>
FeeFields(c) == <<c.withdrawFee, c.wdFee>>

\* an id taken from the raw withdrawalId only
WithdrawalIdOfMut(receipt) ==
    IF receipt.withdrawalId # NONE /\ receipt.withdrawalId # ""
    THEN receipt.withdrawalId ELSE NONE

\* withdraw lines 431-441: the id taken from the receipt.  A numeric
\* withdrawalId decodes to an int (0 when not numeric), clientOid to an int
\* (None when not numeric); the first truthy candidate is the id.
NumericIds == {"77", "88"}
IntOf(x) == IF x \in NumericIds THEN x ELSE NONE
WithdrawalIdOf(receipt) ==
    LET cands == <<IntOf(receipt.withdrawalId), IntOf(receipt.clientOid),
                   receipt.withdrawalId, receipt.orderId, receipt.clientOid>>
        hits == {k \in 1..Len(cands) : cands[k] # NONE /\ cands[k] # ""}
    IN IF hits = {} THEN NONE ELSE cands[CHOOSE m \in hits : \A n \in hits : m <= n]

\* what withdraw returns: the id, or False (written as its str)
PyFalse == "False"
WithdrawResult(id) == IF id = NONE THEN PyFalse ELSE id

\* bitget_withdraw lines 40-48: "Failed" not in str(res), over the results of
\* the model ("False" and the ids), none of which holds the text "Failed"
HoldsFailed(text) == text = "Failed"
WithdrawOutcome(res) == IF ~HoldsFailed(res) THEN "Success" ELSE NONE

\* ---------------------------------------- models.py: FundingToken
\* a balance field of a payload: given or not, and its amount
\* (num: the value given parses as a number)
Given(amount) == [given |-> TRUE, num |-> TRUE, amount |-> amount]
Absent == [given |-> FALSE, num |-> TRUE, amount |-> 0]
Malformed == [given |-> TRUE, num |-> FALSE, amount |-> 0]
Balances(available, frozen, total) ==
    [available |-> available, frozen |-> frozen, total |-> total]
NoBalances == Balances(Absent, Absent, Absent)

\* lines 120-128: _to_float of a field that may be missing (None gives 0.0)
ToFloat(field) == IF field.given /\ field.num THEN field.amount ELSE 0

\* lines 126-138: the balances FundingToken keeps
FundingToken(data) ==
    LET available == ToFloat(data.available)
        frozen0 == ToFloat(data.frozen)
        total0 == ToFloat(data.total)
        total == IF total0 = 0 THEN available + frozen0 ELSE total0
        frozen == IF frozen0 = 0 /\ total >= available THEN total - available ELSE frozen0
    IN [bal |-> total, availBal |-> available, frozenBal |-> frozen]

\* -------------------- asset/models.py: the decoders of the records
\* the fields of a row that the decoders convert; present says whether
\* there is a data payload at all
DataRow(cls, present, size, fee, ts, id, client, confirmations, balances) ==
    [cls |-> cls, present |-> present, size |-> size, fee |-> fee, ts |-> ts, id |-> id,
     client |-> client, confirmations |-> confirmations, balances |-> balances]
NoRow == DataRow("none", FALSE, Absent, Absent, Absent, Absent, Absent, Absent, NoBalances)

\* a decoded record, or the exception that the constructor raised
Record(exc, amt, fee, ts, id, clientId, confirm, funding) ==
    [exc |-> exc, amt |-> amt, fee |-> fee, ts |-> ts, id |-> id, clientId |-> clientId,
     confirm |-> confirm, funding |-> funding]
NoFunding == [bal |-> 0, availBal |-> 0, frozenBal |-> 0]
NoRecord == Record("", 0, 0, 0, 0, Absent, Absent, NoFunding)
Failed(type) == [NoRecord EXCEPT !.exc = type]

\* "float(x) if x is not None else 0.0" and "int(x) if x is not None else 0":
\* the conversion is made outside any try, so it raises on a malformed value
Unguarded(field) == field.given /\ ~field.num
\* "try: int(x) except (TypeError, ValueError): default", default 0
IntOrZero(field) == IF field.given /\ field.num THEN field.amount ELSE 0
\* the same with default None
IntOrNone(field) == IF field.given /\ field.num THEN Given(field.amount) ELSE Absent
\* "int(int(ts) / 1000) if ts else 0": float division, truncated toward zero
Seconds(ts) ==
    IF ~ts.given \/ ts.amount = 0 THEN 0
    ELSE IF ts.amount >= 0 THEN ts.amount \div 1000 ELSE -((-ts.amount) \div 1000)

\* Deposit.__init__ lines 63-92
DecodeDeposit(d) ==
    IF ~d.present THEN Failed("AttributeError")
    ELSE IF Unguarded(d.size) \/ Unguarded(d.ts) \/ Unguarded(d.id) THEN Failed("ValueError")
    ELSE Record("", ToFloat(d.size), 0, Seconds(d.ts), IntOrZero(d.id), Absent,
                IntOrNone(d.confirmations), NoFunding)

\* Withdrawal.__init__ lines 115-151
DecodeWithdrawalRow(d) ==
    IF ~d.present THEN Failed("AttributeError")
    ELSE IF Unguarded(d.fee) \/ Unguarded(d.size) \/ Unguarded(d.ts) THEN Failed("ValueError")
    ELSE Record("", ToFloat(d.size), ToFloat(d.fee), Seconds(d.ts), IntOrZero(d.id),
                IntOrNone(d.client), Absent, NoFunding)

\* WithdrawalToken.__init__ lines 161-176
DecodeWithdrawalToken(d) ==
    IF ~d.present THEN Failed("AttributeError")
    ELSE IF Unguarded(d.size) THEN Failed("ValueError")
    ELSE Record("", ToFloat(d.size), 0, 0, IntOrZero(d.id), IntOrNone(d.client), Absent,
                NoFunding)

\* Transfer.__init__ lines 211-233
DecodeTransfer(d) ==
    IF ~d.present THEN Failed("AttributeError")
    ELSE IF Unguarded(d.size) THEN Failed("ValueError")
    ELSE Record("", ToFloat(d.size), 0, 0, IntOrZero(d.id), IntOrNone(d.client), Absent,
                NoFunding)

\* models.py FundingToken.__init__ lines 115-138, on a row of balances
DecodeFundingToken(d) ==
    IF ~d.present THEN Failed("AttributeError")
    ELSE Record("", 0, 0, 0, 0, Absent, Absent, FundingToken(d.balances))

Decode(d) ==
    CASE d.cls = "Deposit" -> DecodeDeposit(d)
      [] d.cls = "Withdrawal" -> DecodeWithdrawalRow(d)
      [] d.cls = "WithdrawalToken" -> DecodeWithdrawalToken(d)
      [] d.cls = "Transfer" -> DecodeTransfer(d)
      [] OTHER -> DecodeFundingToken(d)

\* ------------------------------- asset/Asset.py: withdrawal_history
\* one row of the withdrawal-records answer, with the keys the code reads;
\* NONE is a missing key
HistRecord(withdrawalId, orderId, clientOid, chain, to, state, txId, txHash) ==
    [withdrawalId |-> withdrawalId, orderId |-> orderId, clientOid |-> clientOid, chain |-> chain,
     to |-> to, state |-> state, txId |-> txId, txHash |-> txHash]

\* Python's "a or b" over values that are a string or None
OrElse(a, b) == IF a # NONE /\ a # "" THEN a ELSE b

\* str.isdigit and the digits of a string, over the identifiers of the model
DigitIds == NumericIds \cup {"0", "5"}
IsDigit(x) == x \in DigitIds
DigitsOf(x) ==
    CASE x \in DigitIds -> x
      [] x = "x5" -> "5"
      [] OTHER -> ""

\* lines 244-259: the key a row is stored under (its int, written as the
\* digits), or NONE for a row that is skipped
HistoryKey(r) ==
    LET wid == OrElse(r.withdrawalId, OrElse(r.orderId, r.clientOid))
    IN IF wid = NONE THEN NONE
       ELSE IF DigitsOf(wid) = "" THEN NONE
       ELSE DigitsOf(wid)

\* asset/models.py Withdrawal.__init__ after lines 260-264 of
\* withdrawal_history: the attributes of a decoded row; wdId is the int of
\* withdrawalId (0 when it is not one), clientId the int of clientOid (None when it
\* is not one), txId the hash under its first alias
DecodeWithdrawal(r) ==
    [chain |-> r.chain, to_ |-> r.to, state |-> IF r.state = NONE THEN "" ELSE r.state,
     txId |-> OrElse(r.txId, r.txHash),
     wdId |-> IF r.withdrawalId # NONE /\ r.withdrawalId \in DigitIds
              THEN r.withdrawalId ELSE "0",
     clientId |-> IF r.clientOid # NONE /\ r.clientOid \in DigitIds THEN r.clientOid ELSE NONE,
     data |-> r]

\* lines 242-265: the dict that withdrawal_history builds, as the sequence of
\* its items in insertion order; a later row with the key of an earlier one
\* replaces its value and keeps its place
RECURSIVE PutAll(_, _)
PutAll(items, rows) ==
    IF rows = <<>> THEN items
    ELSE LET r == Head(rows)
             key == HistoryKey(r)
             item == [key |-> key, rec |-> DecodeWithdrawal(r)]
             held == \E k \in 1..Len(items) : items[k].key = key
         IN PutAll(IF key = NONE THEN items
                   ELSE IF held
                   THEN [k \in 1..Len(items) |-> IF items[k].key = key THEN item ELSE items[k]]
                   ELSE Append(items, item),
                   Tail(rows))
WithdrawalHistory(response) == PutAll(<<>>, response.data.records)

\* ------------------- utils/exchanger/bitget.py: check_withdrawal_status
PyTrue == "True"
LowerStr(x) ==
    CASE x = "SUCCESS" -> "success"
      [] x = "Done" -> "done"
      [] OTHER -> x
CompletedStates == {"success", "completed", "done", "finished"}

\* line 482: the record is the withdrawal asked about
SameDestinationMut(tx, to_address, chain) == tx.to_ = to_address
SameDestination(tx, to_address, chain) == tx.chain = chain /\ tx.to_ = to_address

\* a status that any completed record to the address on the chain decides
CheckStatusMut(hist, to_address, chain) ==
    IF \E k \in 1..Len(hist) : /\ SameDestination(hist[k].rec, to_address, chain)
                                /\ LowerStr(hist[k].rec.state) \in CompletedStates
    THEN PyTrue ELSE PyFalse

\* lines 479-489: the first record to the address on the chain decides
CheckStatus(hist, to_address, chain) ==
    LET hits == {k \in 1..Len(hist) : SameDestination(hist[k].rec, to_address, chain)}
    IN IF hits = {} THEN PyFalse
       ELSE LET first == CHOOSE m \in hits : \A n \in hits : m <= n
            IN IF LowerStr(hist[first].rec.state) \in CompletedStates
               THEN PyTrue ELSE PyFalse

\* ------------------- utils/exchanger/bitget.py: try_to_get_tx_hash
\* lines 295-304: the hash of a record
TxFromRecord(rec) ==
    LET tx == OrElse(rec.txId, OrElse(rec.data.txId, rec.data.txHash))
    IN IF tx # NONE /\ tx # "" THEN tx ELSE NONE

\* lines 306-317: str of every identifier of the record that is not None
IdentifierStrs(rec) ==
    {rec.wdId, rec.clientId, rec.data.withdrawalId, rec.data.orderId, rec.data.clientOid} \ {NONE}
IsSameWithdrawal(target, rec) == target \in IdentifierStrs(rec)

RECURSIVE Flatten(_)
Flatten(seqs) == IF seqs = <<>> THEN <<>> ELSE Head(seqs) \o Flatten(Tail(seqs))

\* lines 319-327: the first hash of a record of the withdrawal, over the
\* lookups in the order they were made, or None
TxHashIn(candidates, target) ==
    LET all == Flatten(candidates)
        hits == {k \in 1..Len(all) :
                    IsSameWithdrawal(target, all[k].rec) /\ TxFromRecord(all[k].rec) # NONE}
    IN IF hits = {} THEN NONE
       ELSE TxFromRecord(all[CHOOSE m \in hits : \A n \in hits : m <= n].rec)

\* ------------------------------------------------------------- state
VARIABLES
    now,          \* local clock, ms
    offset,       \* Base._time_offset_ms of each client instance
    masterUid,    \* Asset._master_uid
    creds,        \* the credentials BitgetActions was constructed with
    client,       \* BitgetActions.client is set (a BitgetClient was built)
    exch,         \* what the exchange holds: subaccount listing, coins
    rq,           \* the make_request call in progress
    op,           \* the Asset.transfer call in progress
    wf,           \* the BitgetActions call in progress
    issued,       \* transfers and withdrawals invoked by the call in progress
    calls,        \* calls the driver has started
    mode,         \* which history counters are recorded
    timeQueries,  \* per instance: queries of /api/v2/public/time so far
    signedSent,   \* per instance: has a signed request been transmitted
    staleSeen,    \* per instance: has a response carried the stale-timestamp code
    infoQueries,  \* account-info queries started so far
    infoResolved  \* account-info answers that gave a non-empty user id so far

vars == <<now, offset, masterUid, creds, client, exch, rq, op, wf, issued, calls, mode,
          timeQueries, signedSent, staleSeen, infoQueries, infoResolved>>

history == <<timeQueries, signedSent, staleSeen>>
infoHistory == <<infoQueries, infoResolved>>

NoPath == [base |-> "", query |-> EmptyParams]
NoBody == [enc |-> "empty", of |-> EmptyParams]
Idle ==
    [pc |-> "idle", inst |-> "asset", method |-> GET, path |-> NoPath, body |-> NoBody,
     sign_body |-> NoBody, args |-> EmptyParams,
     wire |-> <<>>, got |-> <<>>, at |-> <<>>, trace |-> <<>>, offset0 |-> 0,
     result |-> Pending]

\* Base.make_request lines 118-140: entry of a call, up to its first await;
\* off is the instance's offset at entry
MakeRequestEnter(off, inst, method, path, params) ==
    [pc |-> IF NeedsInitialSync(off) THEN "sync" ELSE "send",
     inst |-> inst, method |-> method,
     path |-> RequestPath(method, path, params), body |-> BodyToSend(method, params),
     sign_body |-> BodyStrForSign(method, params), args |-> params,
     wire |-> <<>>, got |-> <<>>, at |-> <<>>, trace |-> <<>>, offset0 |-> off,
     result |-> Pending]

\* one signed transmission: ACCESS-TIMESTAMP, ACCESS-SIGN, url and data
Transmission(f) ==
    LET ts == TimestampWithOffset(now, offset[f.inst])
    IN [ts |-> ts, sign |-> GenerateSign(ts, f.method, f.path, f.sign_body),
        method |-> f.method, path |-> f.path, body |-> f.body]

\* ------------------------------------------------------ the exchange
NameABO == <<"A", "B", "O">>
NameAbDashO == <<"A", "b", "-", "O">>
NameO1 == <<"o", "1">>
ChainABO == ChainEntry(NameABO, NoStr, NoStr, NoStr, NoStr, NoStr, NoStr, NoStr)
ChainNamed == ChainEntry(NameABO, NameAbDashO, NoStr, NoStr, NoStr, NoStr, NoStr, NoStr)
ChainO1 == ChainEntry(NoStr, NoStr, NameO1, NoStr, NoStr, NoStr, NoStr, NoStr)
Coin(coin, chains) == [coin |-> coin, chains |-> chains]
CoinTables ==
    {<<>>,
     <<Coin("ETH", <<ChainO1, ChainNamed>>)>>,
     <<Coin("eth", <<ChainABO>>)>>,
     <<Coin("BTC", <<ChainABO>>)>>}
UserChains == {<<>>, <<"-">>, <<"a", "b", " ", "o">>, <<"B">>, <<"1", "1">>}

\* further chain entries and user strings for the chain lookups alone: an
\* empty alias, an alias of punctuation only, an entry whose first name is
\* empty, entries with minimum and fee fields
ChainEmptyAlias == ChainEntry(<<>>, NameO1, NoStr, NoStr, NoStr, NoStr, NoStr, NoStr)
ChainDash == ChainEntry(<<"-">>, NoStr, NoStr, NoStr, NoStr, NoStr, NoStr, NoStr)
ChainBlank == ChainEntry(<<>>, NoStr, NoStr, NameABO, NoStr, NoStr, NoStr, NoStr)
WithLimits(c, minWithdrawAmount, minWithdraw, withdrawFee, wdFee) ==
    [c EXCEPT !.minWithdrawAmount = minWithdrawAmount, !.minWithdraw = minWithdraw,
              !.withdrawFee = withdrawFee, !.wdFee = wdFee]
LookupTables ==
    CoinTables \cup
    {<<Coin("ETH", <<ChainEmptyAlias, ChainABO>>)>>,
     <<Coin("ETH", <<ChainDash>>)>>,
     <<Coin("ETH", <<ChainBlank>>)>>,
     <<Coin("ETH", <<WithLimits(ChainO1, "0.1", "0.2", NONE, "0.2"),
                     WithLimits(ChainNamed, "n/a", "0.2", "", "0.1")>>)>>}
LookupChains == UserChains \cup {<<"A", "B", "-", "O">>, <<"O", "1">>}
TablesOffered == IF mode = "lookup" THEN LookupTables ELSE CoinTables
ChainsOffered == IF mode = "lookup" THEN LookupChains ELSE UserChains
Symbols == {"ETH", "eth"}
Receipts ==
    {[withdrawalId |-> "77", orderId |-> NONE, clientOid |-> NONE],
     [withdrawalId |-> NONE, orderId |-> NONE, clientOid |-> "abc"],
     [withdrawalId |-> NONE, orderId |-> "o9", clientOid |-> "abc"],
     [withdrawalId |-> "x5", orderId |-> "o9", clientOid |-> "88"],
     [withdrawalId |-> "", orderId |-> NONE, clientOid |-> ""],
     NoReceipt}
SubTables ==
    {t \in [1..MaxSubs -> [id : 1..MaxSubs, hasEth : BOOLEAN, avail : 0..MaxBal]] :
        \A k \in 1..MaxSubs : t[k] \in RowShapes(k)}
MasterUserId == "u1"

\* the answers the exchange can give to a signed request on a path
\* the rows of the withdrawal history that a query selects by an identifier
SelectedRecords(records, query) ==
    LET Selected(r) ==
            CASE query.tag = "orderId" -> r.orderId = query.uid
              [] query.tag = "withdrawalId" -> r.withdrawalId = query.uid
              [] query.tag = "clientOid" -> r.clientOid = query.uid
              [] OTHER -> TRUE
    IN SelectSeq(records, Selected)
Failures ==
    {Resp("exc", NONE, "timeout", NoData, 503),
     Resp("nondict", NONE, NONE, NoData, NoStatus),
     Resp("dict", OtherCode, "denied", NoData, NoStatus),
     Resp("dict", StaleCode, "stale", NoData, NoStatus)}
Success(d) == Resp("dict", SuccessCode, "success", d, NoStatus)
Responses(path) ==
    CASE path = GenericPath ->
            {Resp("exc", NONE, "timeout", NoData, s) : s \in HttpStatuses}
            \cup {Resp("nondict", NONE, NONE, NoData, NoStatus)}
            \cup {Resp("dict", NONE, NONE, d, NoStatus) : d \in {NoData, Payload("d")}}
            \cup {Success(d) : d \in {NoData, Payload("d")}}
            \cup {Resp("dict", StaleCode, "stale", NoData, NoStatus)}
            \cup {Resp("dict", OtherCode, m, NoData, NoStatus) : m \in {NONE, "denied"}}
      [] path = InfoPath ->
            Failures \cup {Success(NoData), Success(Payload("list")), Success(Payload("info")),
                           Success(Data("info", MasterUserId, <<>>, <<>>, NoReceipt))}
      [] path = SubAssetsPath ->
            Failures \cup {Success(Data("subs", NONE, exch.subs, <<>>, NoReceipt)),
                           Resp("dict", NONE, NONE, Data("subs", NONE, exch.subs, <<>>, NoReceipt), NoStatus)}
      [] path = CoinsPath ->
            Failures \cup {Success(NoData), Success(Data("coins", NONE, <<>>, exch.coins, NoReceipt))}
      [] path = WithdrawalPath ->
            Failures \cup {Success(NoData)}
                     \cup {Success(Data("receipt", NONE, <<>>, <<>>, r)) : r \in Receipts}
      [] path = HistoryPath ->
            Failures \cup {Success(NoData), Success(DataRecords(exch.records)),
                           Success(DataRecords(SelectedRecords(exch.records, rq.path.query)))}
      [] OTHER ->
            Failures \cup {Success(NoData), Success(Payload("transfer"))}

\* ------------------------------------------------- make_request steps
\* line 119 (initial) and line 178 (after a stale-timestamp answer): _sync_time
SyncTime ==
    /\ rq.pc \in {"sync", "resync"}
    /\ \E t \in TimeAnswers :
         offset' = [offset EXCEPT ![rq.inst] = SyncedOffset(@, t)]
    /\ timeQueries' = IF mode = "transport" THEN [timeQueries EXCEPT ![rq.inst] = @ + 1]
                      ELSE timeQueries
    /\ rq' = [rq EXCEPT !.pc = IF rq.pc = "sync" THEN "send" ELSE "resend",
                        !.trace = Append(@, "sync")]
    /\ UNCHANGED <<now, masterUid, creds, client, exch, op, wf, issued, calls, mode,
                   signedSent, staleSeen, infoHistory>>

Received(f, r, a) ==
    [f EXCEPT !.pc = a.next, !.result = a.result,
              !.wire = Append(@, Transmission(f)),
              !.got = Append(@, r),
              !.at = Append(@, [now |-> now, offset |-> offset[f.inst]]),
              !.trace = Append(@, "send")]
Recorded(r) ==
    /\ staleSeen' = IF mode = "transport"
                    THEN [staleSeen EXCEPT ![rq.inst] =
                             @ \/ (r.kind = "dict" /\ Str(r.code) = StaleCode)]
                    ELSE staleSeen
    /\ signedSent' = IF mode = "transport" THEN [signedSent EXCEPT ![rq.inst] = TRUE]
                     ELSE signedSent

\* lines 120-178: sign, transmit, and handle the first response
SendFirst ==
    /\ rq.pc = "send"
    /\ \E r \in Responses(rq.path.base) :
         /\ rq' = Received(rq, r, AfterFirstResponse(r))
         /\ Recorded(r)
    /\ UNCHANGED <<now, offset, masterUid, creds, client, exch, op, wf, issued, calls, mode,
                   timeQueries, infoHistory>>

\* lines 180-210: re-sign, retransmit, and handle the retry's response
SendRetry ==
    /\ rq.pc = "resend"
    /\ \E r \in Responses(rq.path.base) :
         /\ rq' = Received(rq, r, AfterRetryResponse(r))
         /\ Recorded(r)
    /\ UNCHANGED <<now, offset, masterUid, creds, client, exch, op, wf, issued, calls, mode,
                   timeQueries, infoHistory>>

\* the local clock advances
Tick ==
    /\ now < MaxNow
    /\ now' = now + 1
    /\ UNCHANGED <<offset, masterUid, creds, client, exch, rq, op, wf, issued, calls, mode,
                   history, infoHistory>>


\* ------------------------------------------------ Asset.transfer steps
NoOp == [pc |-> "none", sub |-> 0, amount |-> 0, result |-> Pending]

\* Asset.transfer lines 364-386 with _get_master_uid lines 44-46: entry of a
\* call up to its first await: the account-info query when a subaccount id
\* is given and no user id is cached, the transfer request otherwise
TransferOp(subAcct, amount) ==
    [pc |-> IF subAcct # 0 /\ ~HasCachedUid(masterUid) THEN "uid" ELSE "post",
     sub |-> subAcct, amount |-> amount, result |-> Pending]
TransferRq(subAcct, amount) ==
    IF subAcct # 0 /\ ~HasCachedUid(masterUid)
    THEN MakeRequestEnter(offset["asset"], "asset", GET, InfoPath, EmptyParams)
    ELSE MakeRequestEnter(offset["asset"], "asset", POST, TransferRequestPath(subAcct),
                          TransferBody(amount, subAcct, masterUid))
TransferCounted(subAcct) ==
    infoQueries' = IF mode = "transfer" /\ subAcct # 0 /\ ~HasCachedUid(masterUid)
                   THEN infoQueries + 1 ELSE infoQueries

\* _get_master_uid lines 47-57, then Asset.transfer lines 376-386: the
\* account-info answer is cached and the transfer request is entered
TransferUidDone ==
    /\ op.pc = "uid"
    /\ rq.pc = "done"
    /\ LET u == MasterUidOf(rq.result.value)
       IN IF rq.result.kind = "raise"
          THEN /\ op' = [op EXCEPT !.pc = "done", !.result = rq.result]
               /\ rq' = Idle
               /\ UNCHANGED <<masterUid, infoResolved>>
          ELSE IF u.raises
          THEN /\ op' = [op EXCEPT !.pc = "done", !.result = Raise(PyError("AttributeError"))]
               /\ rq' = Idle
               /\ UNCHANGED <<masterUid, infoResolved>>
          ELSE /\ masterUid' = u.uid
               /\ op' = [op EXCEPT !.pc = "post"]
               /\ rq' = MakeRequestEnter(offset["asset"], "asset", POST,
                                         TransferRequestPath(op.sub),
                                         TransferBody(op.amount, op.sub, u.uid))
               /\ infoResolved' = IF mode = "transfer" /\ HasCachedUid(u.uid)
                                  THEN infoResolved + 1 ELSE infoResolved
    /\ UNCHANGED <<now, offset, creds, client, exch, wf, issued, calls, mode,
                   history, infoQueries>>

\* Asset.transfer lines 388-393: the transfer's response is decoded
TransferPostDone ==
    /\ op.pc = "post"
    /\ rq.pc = "done"
    /\ op' = [op EXCEPT !.pc = "done",
                        !.result = IF rq.result.kind = "raise" THEN rq.result
                                   ELSE DecodeRecord(rq.result.value)]
    /\ rq' = Idle
    /\ UNCHANGED <<now, offset, masterUid, creds, client, exch, wf, issued, calls, mode,
                   history, infoHistory>>

\* ------------------------------------------------------------ drivers
NoWf ==
    [fn |-> "none", pc |-> "idle", via |-> "", sym |-> "", chain |-> <<>>,
     want |-> <<>>, resolved |-> NoStr, ids |-> <<>>, i |-> 0,
     result |-> NONE, raised |-> "", ret |-> NONE, slept |-> FALSE,
     token |-> [got |-> FALSE, data |-> NoReceipt],
     addr |-> "", id |-> NONE, candidates |-> <<>>,
     payload |-> NoBalances, funding |-> [bal |-> 0, availBal |-> 0, frozenBal |-> 0],
     row |-> NoRow, rec |-> NoRecord,
     entrypoint_url |-> "", configured |-> "", proxy |-> "", probes |-> <<>>,
     built |-> [asset |-> "", subaccount |-> ""],
     flows |-> <<>>, lead |-> 0, seen |-> [faults |-> FALSE, nameless |-> FALSE],
     wallet |-> [galxe_account_banned |-> FALSE], banned |-> NONE, subscribed |-> NONE,
     functions |-> <<>>, log |-> <<>>,
     balance_in_platform |-> 0, balance_in_irys |-> 0, amount |-> 0, faucets |-> 0,
     faucet |-> NONE]
NoExchange == [subs |-> <<>>, coins |-> <<>>, records |-> <<>>]
NoCredentials == [api_key |-> "", secret_key |-> "", passphrase |-> ""]
FreshOffsets == [i \in Instances |-> 0]

\* a caller makes a signed request through a client instance
Call ==
    /\ rq.pc = "idle"
    /\ calls < MaxCalls
    /\ \E inst \in Instances, method \in {GET, POST},
          params \in {EmptyParams, Params("q", "ETH", 0, NONE, 0, <<>>, "")} :
         rq' = MakeRequestEnter(offset[inst], inst, method, GenericPath, params)
    /\ calls' = calls + 1
    /\ UNCHANGED <<now, offset, masterUid, creds, client, exch, op, wf, issued, mode,
                   history, infoHistory>>

\* the caller takes the result of the request
Finish ==
    /\ rq.pc = "done"
    /\ rq' = Idle
    /\ UNCHANGED <<now, offset, masterUid, creds, client, exch, op, wf, issued, calls, mode,
                   history, infoHistory>>

\* a caller invokes Asset.transfer
TransferCall ==
    /\ op.pc = "none"
    /\ calls < MaxCalls
    /\ \E subAcct \in 0..MaxSubs, amount \in 1..MaxBal :
         /\ op' = TransferOp(subAcct, amount)
         /\ rq' = TransferRq(subAcct, amount)
         /\ TransferCounted(subAcct)
    /\ calls' = calls + 1
    /\ UNCHANGED <<now, offset, masterUid, creds, client, exch, wf, issued, mode,
                   history, infoResolved>>

\* the caller takes the result of Asset.transfer
TransferReturn ==
    /\ op.pc = "done"
    /\ op' = NoOp
    /\ UNCHANGED <<now, offset, masterUid, creds, client, exch, rq, wf, issued, calls, mode,
                   history, infoHistory>>

InitCommon ==
    /\ now = 0
    /\ offset = FreshOffsets
    /\ masterUid = NONE
    /\ creds = NoCredentials
    /\ client = FALSE
    /\ exch = NoExchange
    /\ rq = Idle
    /\ op = NoOp
    /\ wf = NoWf
    /\ issued = <<>>
    /\ calls = 0
    /\ timeQueries = [i \in Instances |-> 0]
    /\ signedSent = [i \in Instances |-> FALSE]
    /\ staleSeen = [i \in Instances |-> FALSE]
    /\ infoQueries = 0
    /\ infoResolved = 0

\* signed requests made directly through the client instances
Init == InitCommon /\ mode = "transport"
Next == Call \/ SyncTime \/ SendFirst \/ SendRetry \/ Finish \/ Tick
Spec == Init /\ [][Next]_vars

\* Asset.transfer called directly, any number of times on one Asset
InitTransfer == InitCommon /\ mode = "transfer"
NextTransfer ==
    TransferCall \/ TransferUidDone \/ TransferPostDone \/ TransferReturn
    \/ SyncTime \/ SendFirst \/ SendRetry
SpecTransfer == InitTransfer /\ [][NextTransfer]_vars


\* ------------------------------------------------------------- claims
SyncCount(trace) == Cardinality({k \in 1..Len(trace) : trace[k] = "sync"})
IsErrorResponse(r) == r.kind = "dict" /\ r.code # NONE /\ r.code # "00000"
IsStaleResponse(r) == r.kind = "dict" /\ r.code = "40008"
LastThree(trace) == SubSeq(trace, Len(trace) - 2, Len(trace))

\* C1: a call of make_request transmits the signed request at most twice; a
\* second transmission happens only after a first response with code "40008"
\* and exactly one resynchronisation between the two; an error answer to the
\* retry is raised with no further transmission; any other first answer
\* (other code, malformed response, transport failure) ends the call after
\* one transmission and no resynchronisation.
C1_AtMostOneRetry ==
    /\ Len(rq.wire) <= 2
    /\ Len(rq.wire) = 2 =>
          /\ IsStaleResponse(rq.got[1])
          /\ LastThree(rq.trace) = <<"send", "sync", "send">>
          /\ rq.pc = "done"
    /\ (Len(rq.got) = 2 /\ IsErrorResponse(rq.got[2])) =>
          /\ rq.result.kind = "raise"
          /\ rq.result.exc.response = rq.got[2]
    /\ (Len(rq.got) >= 1 /\ ~IsStaleResponse(rq.got[1])) =>
          /\ rq.pc = "done"
          /\ Len(rq.wire) = 1
          /\ SyncCount(rq.trace) = (IF rq.offset0 = 0 THEN 1 ELSE 0)
C1_Witness ==
    /\ rq.pc = "done"
    /\ Len(rq.wire) = 2
    /\ rq.got[2].code = "40008"
    /\ rq.result.kind = "raise"

\* C8: on one client instance the time endpoint is queried before the first
\* signed request and, as long as no response carried code "40008", exactly
\* once; every transmitted timestamp is the local time plus the offset.
C8_LazyInitOnce ==
    /\ \A i \in Instances :
          /\ signedSent[i] => timeQueries[i] >= 1
          /\ (signedSent[i] /\ ~staleSeen[i]) => timeQueries[i] = 1
    /\ \A k \in 1..Len(rq.wire) : rq.wire[k].ts = rq.at[k].now + rq.at[k].offset

StaleThenSuccess ==
    /\ rq.pc = "done"
    /\ Len(rq.got) = 2
    /\ IsStaleResponse(rq.got[1])
    /\ rq.got[2].kind = "dict"
    /\ rq.got[2].code = "00000"

\* C9 as stated: after a "40008" answer and a "00000" answer to the retry the
\* call returns the retry's payload, and over the whole call the time
\* endpoint has been queried exactly once.
C9_Original ==
    StaleThenSuccess =>
        /\ rq.result = Return(rq.got[2])
        /\ SyncCount(rq.trace) = 1

\* C9: after a "40008" answer and a "00000" answer to the retry the call
\* returns the retry's payload without raising; exactly one query of the time
\* endpoint lies between the two transmissions, and the call makes one more
\* before the first transmission when it entered with an offset of zero.
C9_StaleRetryReturnsPayload ==
    StaleThenSuccess =>
        /\ rq.result = Return(rq.got[2])
        /\ LastThree(rq.trace) = <<"send", "sync", "send">>
        /\ SyncCount(rq.trace) = (IF rq.offset0 = 0 THEN 2 ELSE 1)
C9_Witness ==
    /\ StaleThenSuccess
    /\ rq.offset0 = 0
    /\ rq.result.kind = "return"
    /\ rq.result.value.data = Payload("d")

\* C10: when the last response of a call is a keyed document without a
\* status code, the call returns that document unchanged, after the first
\* transmission and after the retry alike.
C10_NoCodeReturnedAsIs ==
    (/\ rq.pc = "done"
     /\ Len(rq.got) >= 1
     /\ rq.got[Len(rq.got)].kind = "dict"
     /\ rq.got[Len(rq.got)].code = NONE)
    => rq.result = Return(rq.got[Len(rq.got)])

\* C7: over any sequence of Asset.transfer calls with a subaccount id the
\* account-info endpoint is queried at most once, and every such transfer is
\* transmitted to the subaccount-transfer endpoint with toUserId equal to a
\* resolved (non-empty) master user id.
C7_InfoQueriedOnce ==
    /\ infoQueries <= 1
    /\ (op.pc = "post" /\ op.sub # 0 /\ Len(rq.wire) >= 1) =>
          /\ rq.path.base = "/api/v2/spot/wallet/subaccount-transfer"
          /\ rq.body.of.uid = masterUid
          /\ masterUid # NONE
          /\ masterUid # ""


\* ------------------------------------------- BitgetActions: the steps
Amount == 1
Address == "0xA"
Transferred(subAcct, amount) ==
    [kind |-> "transfer", sub |-> subAcct, amount |-> amount, chain |-> <<>>]
Withdrawn(chain) ==
    [kind |-> "withdrawal", sub |-> 0, amount |-> Amount, chain |-> chain]

\* BitgetActions.__init__: a client (with a new Asset and a new Subaccount) is
\* built only for completely filled credentials
NewActions ==
    /\ wf.fn = "none"
    /\ \E c \in Credentials :
         /\ creds' = c
         /\ client' = CompletelyFilled(c)
    /\ offset' = FreshOffsets
    /\ masterUid' = NONE
    /\ UNCHANGED <<now, exch, rq, op, wf, issued, calls, mode, history, infoHistory>>

\* a call that ends by raising an exception of the given type
Raised(w, type) == [w EXCEPT !.pc = "done", !.raised = type]

\* collect_funds_from_subaccounts: the loop reaches subaccount number i
CollectAdvance(w, i) ==
    IF i > Len(w.ids)
    THEN /\ wf' = [w EXCEPT !.pc = "done", !.i = i]
         /\ rq' = Idle
    ELSE /\ wf' = [w EXCEPT !.pc = "balances", !.i = i]
         /\ rq' = MakeRequestEnter(offset["subaccount"], "subaccount", GET,
                                   SubAssetsPath, EmptyParams)

\* collect_funds_from_subaccounts line 97: self.client.subaccount.list() is
\* called (self.client is None without a client)
StartCollect ==
    /\ wf.fn = "none"
    /\ calls < MaxActions
    /\ \E t \in SubTables : exch' = [exch EXCEPT !.subs = t]
    /\ IF ~client
       THEN /\ wf' = Raised([NoWf EXCEPT !.fn = "collect_funds_from_subaccounts"],
                            "AttributeError")
            /\ rq' = Idle
       ELSE /\ wf' = [NoWf EXCEPT !.fn = "collect_funds_from_subaccounts", !.pc = "list"]
            /\ rq' = MakeRequestEnter(offset["subaccount"], "subaccount", GET,
                                      SubAssetsPath, EmptyParams)
    /\ issued' = <<>>
    /\ calls' = calls + 1
    /\ UNCHANGED <<now, offset, masterUid, creds, client, op, mode, history, infoHistory>>

\* line 97: list() has answered
CollectListed ==
    /\ wf.fn = "collect_funds_from_subaccounts"
    /\ wf.pc = "list"
    /\ rq.pc = "done"
    /\ IF rq.result.kind = "raise"
       THEN /\ wf' = Raised(wf, rq.result.exc.type)
            /\ rq' = Idle
       ELSE CollectAdvance([wf EXCEPT !.ids = SubaccountList(rq.result.value)], 1)
    /\ UNCHANGED <<now, offset, masterUid, creds, client, exch, op, issued, calls, mode,
                   history, infoHistory>>

\* lines 98-108: asset_balances has answered; a positive available balance
\* is transferred
CollectBalances ==
    /\ wf.fn = "collect_funds_from_subaccounts"
    /\ wf.pc = "balances"
    /\ rq.pc = "done"
    /\ LET subAcct == wf.ids[wf.i]
           balances == IF rq.result.kind = "raise" THEN <<>>
                       ELSE AssetBalances(rq.result.value, subAcct)
       IN IF rq.result.kind = "raise"
          THEN /\ wf' = Raised(wf, rq.result.exc.type)
               /\ rq' = Idle
               /\ UNCHANGED <<op, issued, infoQueries>>
          ELSE IF balances # <<>> /\ balances[1] > 0
          THEN /\ wf' = [wf EXCEPT !.pc = "transfer"]
               /\ op' = TransferOp(subAcct, balances[1])
               /\ rq' = TransferRq(subAcct, balances[1])
               /\ TransferCounted(subAcct)
               /\ issued' = Append(issued, Transferred(subAcct, balances[1]))
          ELSE /\ CollectAdvance(wf, wf.i + 1)
               /\ UNCHANGED <<op, issued, infoQueries>>
    /\ UNCHANGED <<now, offset, masterUid, creds, client, exch, calls, mode,
                   history, infoResolved>>

\* lines 102-108: Asset.transfer has ended
CollectTransferred ==
    /\ wf.fn = "collect_funds_from_subaccounts"
    /\ wf.pc = "transfer"
    /\ op.pc = "done"
    /\ IF op.result.kind = "raise"
       THEN /\ wf' = Raised(wf, op.result.exc.type)
            /\ rq' = Idle
       ELSE CollectAdvance(wf, wf.i + 1)
    /\ op' = NoOp
    /\ UNCHANGED <<now, offset, masterUid, creds, client, exch, issued, calls, mode,
                   history, infoHistory>>


\* withdraw ends with res; bitget_withdraw lines 40-48 turn it into its own
\* result and sleep after a "Success"
WithdrawEnds(w, res) ==
    [w EXCEPT !.pc = "done", !.result = res,
              !.ret = IF w.via = "bitget_withdraw" THEN WithdrawOutcome(res) ELSE NONE,
              !.slept = w.via = "bitget_withdraw" /\ WithdrawOutcome(res) = "Success"]
WithdrawFrame(via, token_symbol, chain) ==
    [NoWf EXCEPT !.fn = "withdraw", !.via = via, !.sym = token_symbol,
                 !.chain = chain, !.want = Norm(chain)]
CoinsQuery(token_symbol) == Params("coins", UpperSym(token_symbol), 0, NONE, 0, <<>>, "")

\* withdraw lines 403-409 with _resolve_chain_name lines 347-352: up to the
\* first await; cl says whether self.client is set, off is the offset of its
\* Asset
WithdrawEnter(w, cl, off) ==
    IF ~cl \/ w.want = <<>>
    THEN /\ wf' = WithdrawEnds(w, PyFalse)
         /\ rq' = Idle
    ELSE /\ wf' = [w EXCEPT !.pc = "resolve"]
         /\ rq' = MakeRequestEnter(off, "asset", GET, CoinsPath, CoinsQuery(w.sym))

\* BitgetActions.withdraw is called on an existing BitgetActions
StartWithdraw ==
    /\ wf.fn = "none"
    /\ calls < MaxActions
    /\ \E token_symbol \in Symbols, chain \in UserChains, coins \in CoinTables :
         /\ exch' = [exch EXCEPT !.coins = coins]
         /\ WithdrawEnter(WithdrawFrame("direct", token_symbol, chain), client,
                          offset["asset"])
    /\ issued' = <<>>
    /\ calls' = calls + 1
    /\ UNCHANGED <<now, offset, masterUid, creds, client, op, mode, history, infoHistory>>

\* bitget_withdraw lines 35-38: a new BitgetActions is built from the
\* configured credentials and its withdraw is called
StartBitgetWithdraw ==
    /\ wf.fn = "none"
    /\ calls < MaxActions
    /\ \E c \in Credentials, token_symbol \in Symbols, chain \in UserChains,
          coins \in CoinTables :
         /\ creds' = c
         /\ client' = CompletelyFilled(c)
         /\ exch' = [exch EXCEPT !.coins = coins]
         /\ WithdrawEnter(WithdrawFrame("bitget_withdraw", token_symbol, chain),
                          CompletelyFilled(c), 0)
    /\ offset' = FreshOffsets
    /\ masterUid' = NONE
    /\ issued' = <<>>
    /\ calls' = calls + 1
    /\ UNCHANGED <<now, op, mode, history, infoHistory>>

\* withdraw lines 409-424: _resolve_chain_name has ended; the withdrawal is
\* issued for a resolved chain
WithdrawResolved ==
    /\ wf.fn = "withdraw"
    /\ wf.pc = "resolve"
    /\ rq.pc = "done"
    /\ LET resolved == IF rq.result.kind = "raise" THEN NoStr
                       ELSE ResolveInCoins(rq.result.value.data.coins, wf.sym, wf.want)
       IN IF ~Truthy(resolved)
          THEN /\ wf' = WithdrawEnds([wf EXCEPT !.resolved = resolved], PyFalse)
               /\ rq' = Idle
               /\ issued' = issued
          ELSE /\ wf' = [wf EXCEPT !.pc = "withdrawal", !.resolved = resolved]
               /\ rq' = MakeRequestEnter(offset["asset"], "asset", POST, WithdrawalPath,
                                         WithdrawalBody(wf.sym, Amount, Address, resolved))
               /\ issued' = Append(issued, Withdrawn(resolved))
    /\ UNCHANGED <<now, offset, masterUid, creds, client, exch, op, calls, mode,
                   history, infoHistory>>

\* withdraw lines 425-455: Asset.withdrawal has ended
WithdrawIssued ==
    /\ wf.fn = "withdraw"
    /\ wf.pc = "withdrawal"
    /\ rq.pc = "done"
    /\ LET failed == rq.result.kind = "raise" \/ DecodeRecord(rq.result.value).kind = "raise"
           res == IF failed THEN PyFalse
                  ELSE WithdrawResult(WithdrawalIdOf(rq.result.value.data.receipt))
           token == IF failed THEN wf.token
                    ELSE [got |-> TRUE, data |-> rq.result.value.data.receipt]
       IN wf' = WithdrawEnds([wf EXCEPT !.token = token], res)
    /\ rq' = Idle
    /\ UNCHANGED <<now, offset, masterUid, creds, client, exch, op, issued, calls, mode,
                   history, infoHistory>>

\* _resolve_chain_name lines 347-352, called on its own
StartResolve ==
    /\ wf.fn = "none"
    /\ calls < MaxActions
    /\ \E token_symbol \in Symbols, chain \in ChainsOffered, coins \in TablesOffered :
         LET w == [NoWf EXCEPT !.fn = "_resolve_chain_name", !.sym = token_symbol,
                               !.chain = chain, !.want = Norm(chain)]
         IN /\ exch' = [exch EXCEPT !.coins = coins]
            /\ IF w.want = <<>>
               THEN /\ wf' = [w EXCEPT !.pc = "done"]
                    /\ rq' = Idle
               ELSE IF ~client
               THEN /\ wf' = Raised(w, "AttributeError")
                    /\ rq' = Idle
               ELSE /\ wf' = [w EXCEPT !.pc = "resolve"]
                    /\ rq' = MakeRequestEnter(offset["asset"], "asset", GET, CoinsPath,
                                              CoinsQuery(w.sym))
    /\ issued' = <<>>
    /\ calls' = calls + 1
    /\ UNCHANGED <<now, offset, masterUid, creds, client, op, mode, history, infoHistory>>

\* _resolve_chain_name lines 353-378: asset.currencies has ended
ResolveDone ==
    /\ wf.fn = "_resolve_chain_name"
    /\ wf.pc = "resolve"
    /\ rq.pc = "done"
    /\ wf' = IF rq.result.kind = "raise" THEN Raised(wf, rq.result.exc.type)
             ELSE [wf EXCEPT !.pc = "done",
                             !.resolved = ResolveInCoins(rq.result.value.data.coins,
                                                         wf.sym, wf.want)]
    /\ rq' = Idle
    /\ UNCHANGED <<now, offset, masterUid, creds, client, exch, op, issued, calls, mode,
                   history, infoHistory>>

\* the caller takes the result of the call
WfReturn ==
    /\ wf.pc = "done"
    /\ wf' = NoWf
    /\ issued' = <<>>
    /\ exch' = NoExchange
    /\ UNCHANGED <<now, offset, masterUid, creds, client, rq, op, calls, mode,
                   history, infoHistory>>

\* the operations of BitgetActions, called one after another
InitActions == InitCommon /\ mode = "actions"
NextActions ==
    NewActions \/ StartCollect \/ CollectListed \/ CollectBalances \/ CollectTransferred
    \/ StartWithdraw \/ StartBitgetWithdraw \/ WithdrawResolved \/ WithdrawIssued
    \/ StartResolve \/ ResolveDone \/ WfReturn
    \/ TransferUidDone \/ TransferPostDone \/ SyncTime \/ SendFirst \/ SendRetry
SpecActions == InitActions /\ [][NextActions]_vars


\* ------------------------------------------- claims on BitgetActions
CredentialsAllNonEmpty ==
    creds.api_key # "" /\ creds.secret_key # "" /\ creds.passphrase # ""
WithdrawalRequested == \E k \in 1..Len(issued) : issued[k].kind = "withdrawal"
ChainResolved == wf.resolved # NoStr /\ wf.resolved # <<>>

\* the alias names the exchange lists for the chains of its coins
NamesOf(chains) ==
    UNION {{Names(chains[m])[n] : n \in 1..Len(Names(chains[m]))} : m \in 1..Len(chains)}
ListedNames == UNION {NamesOf(exch.coins[k].chains) : k \in 1..Len(exch.coins)}
RowOf(subAcct) == exch.subs[CHOOSE k \in 1..Len(exch.subs) : exch.subs[k].id = subAcct]
HasPositiveBalance(row) == row.hasEth /\ row.avail > 0
TransferIssuedFor(subAcct) ==
    \E k \in 1..Len(issued) : issued[k].kind = "transfer" /\ issued[k].sub = subAcct
CollectEnded == wf.fn = "collect_funds_from_subaccounts" /\ wf.pc = "done"

\* C2: a withdrawal request exists only inside a withdraw call whose
\* credentials are all non-empty and whose chain resolved to a non-empty name
\* the exchange lists, and it carries that name; a withdraw call that ends
\* with incomplete credentials or without a resolved chain returns False and
\* has issued no withdrawal request.
C2_WithdrawOnlyWhenResolved ==
    /\ ((rq.pc # "idle" /\ rq.path.base = "/api/v2/spot/wallet/withdrawal")
        \/ WithdrawalRequested) =>
          /\ wf.fn = "withdraw"
          /\ CredentialsAllNonEmpty
          /\ ChainResolved
          /\ wf.resolved \in ListedNames
          /\ \A k \in 1..Len(issued) : issued[k].chain = wf.resolved
    /\ (rq.pc # "idle" /\ rq.path.base = "/api/v2/spot/wallet/withdrawal") =>
          rq.body.of.chain = wf.resolved
    /\ (wf.fn = "withdraw" /\ wf.pc = "done"
        /\ (~CredentialsAllNonEmpty \/ ~ChainResolved)) =>
          /\ wf.result = "False"
          /\ issued = <<>>
C2_Witness ==
    /\ wf.fn = "withdraw"
    /\ wf.pc = "withdrawal"
    /\ Len(rq.wire) = 1
    /\ wf.chain = <<"a", "b", " ", "o">>
    /\ rq.wire[1].body.of.chain = <<"A", "b", "-", "O">>

\* C3: bitget_withdraw returns "Success" (and sleeps) exactly when withdraw
\* returned a withdrawal id, and None when withdraw returned False.
C3_SuccessOnlyWithId ==
    (wf.via = "bitget_withdraw" /\ wf.pc = "done") =>
        /\ wf.ret = "Success" <=> wf.result # "False"
        /\ wf.slept <=> wf.result # "False"
        /\ wf.result = "False" => wf.ret = NONE

\* C4: no call of a BitgetActions operation ends by raising: an error of the
\* clients below it, or a missing client, ends the call with its sentinel.
C4_NoErrorPropagates == wf.pc = "done" => wf.raised = ""

\* C5: when collect_funds_from_subaccounts has ended, a transfer has been
\* attempted for every listed subaccount with a positive available balance,
\* apart from the one whose balance query or transfer failed.
C5_BestEffort ==
    CollectEnded =>
        \A k \in 1..Len(wf.ids) :
            (k # wf.i /\ HasPositiveBalance(RowOf(wf.ids[k]))) => TransferIssuedFor(wf.ids[k])

\* C6: when collect_funds_from_subaccounts ends without a failed call, the
\* transfers it issued are, in the order of the listing, one per listed
\* subaccount with a positive available balance, for that subaccount and
\* that balance, and none for any other subaccount.
PositiveRows == SelectSeq(exch.subs, HasPositiveBalance)
C6_OneTransferPerPositive ==
    (CollectEnded /\ wf.raised = "") =>
        /\ Len(wf.ids) = Len(exch.subs)
        /\ issued = [k \in 1..Len(PositiveRows) |->
                        [kind |-> "transfer", sub |-> PositiveRows[k].id,
                         amount |-> PositiveRows[k].avail, chain |-> <<>>]]
C6_Witness ==
    /\ CollectEnded
    /\ wf.raised = ""
    /\ exch.subs[1] = [id |-> 1, hasEth |-> TRUE, avail |-> 0]
    /\ exch.subs[2] = [id |-> 2, hasEth |-> TRUE, avail |-> 2]
    /\ exch.subs[3] = [id |-> 3, hasEth |-> FALSE, avail |-> 0]
    /\ issued = <<[kind |-> "transfer", sub |-> 2, amount |-> 2, chain |-> <<>>]>>


\* ------------------------------------------- claims on make_request
LastGot == rq.got[Len(rq.got)]
CallEnded == rq.pc = "done" /\ Len(rq.got) >= 1

\* C11: a call returns a response that carries a status code only when the
\* code is "00000"; for every other final code it raises an APIException
\* whose code and msg are the code and the message of that response.
C11_ErrorCarriesCode ==
    (CallEnded /\ LastGot.kind = "dict" /\ LastGot.code # NONE) =>
        /\ rq.result.kind = "return" => LastGot.code = "00000"
        /\ LastGot.code # "00000" =>
              /\ rq.result.kind = "raise"
              /\ rq.result.exc.type = "APIException"
              /\ rq.result.exc.code = LastGot.code
              /\ rq.result.exc.msg = LastGot.msg

\* what a caller reads off a raised APIException
CauseOf(exc) ==
    IF exc.response = NoResponse THEN "protocol"
    ELSE IF exc.response.code = "transport_error" THEN "transport"
    ELSE "exchange"

\* C12: a transmission that fails in the network (first or retry) ends the
\* call with an APIException carrying the failure's message and its HTTP
\* status when there is one; an answer that is not a dict ends it with an
\* APIException without a response; and the exception alone tells a
\* transport failure, a protocol failure and an exchange error code apart.
C12_FailuresToldApart ==
    CallEnded =>
        /\ LastGot.kind = "exc" =>
              /\ rq.result.kind = "raise"
              /\ CauseOf(rq.result.exc) = "transport"
              /\ rq.result.exc.msg = LastGot.msg
              /\ rq.result.exc.status_code = LastGot.status
        /\ LastGot.kind = "nondict" =>
              /\ rq.result.kind = "raise"
              /\ CauseOf(rq.result.exc) = "protocol"
        /\ (LastGot.kind = "dict" /\ rq.result.kind = "raise") =>
              /\ CauseOf(rq.result.exc) = "exchange"
              /\ rq.result.exc.response = LastGot
C12_Witness ==
    /\ CallEnded
    /\ Len(rq.got) = 2
    /\ LastGot.kind = "exc"
    /\ LastGot.status = 503
    /\ rq.result.kind = "raise"
    /\ rq.result.exc.status_code = 503
    /\ rq.result.exc.msg = "timeout"


\* the message a verifier rebuilds from a transmitted request
SignedMessage(t) == [ts |-> t.ts, method |-> t.method, path |-> t.path, body |-> t.body]

\* C13: every transmission, first or retry, carries the signature over its
\* own timestamp, its method, the path with the query it is sent to and the
\* body it is sent with; the retry has the method, path and body of the first
\* transmission and is signed with the timestamp taken after the
\* resynchronisation.
C13_SignatureMatchesRequest ==
    /\ \A k \in 1..Len(rq.wire) : rq.wire[k].sign = SignedMessage(rq.wire[k])
    /\ Len(rq.wire) = 2 =>
          /\ rq.wire[2].method = rq.wire[1].method
          /\ rq.wire[2].path = rq.wire[1].path
          /\ rq.wire[2].body = rq.wire[1].body
          /\ rq.wire[2].sign.ts = rq.at[2].now + rq.at[2].offset
C13_Witness ==
    /\ Len(rq.wire) = 2
    /\ rq.wire[1].method = "POST"
    /\ rq.wire[1].body.enc = "json"
    /\ rq.wire[1].body.of # EmptyParams
    /\ rq.wire[2].ts # rq.wire[1].ts
    /\ rq.wire[2].sign # rq.wire[1].sign


\* ------------------------------------------- claims on the receipt id
HoldsId(x) == x # NONE /\ x # ""
WithdrawalSucceeded == wf.fn = "withdraw" /\ wf.pc = "done" /\ wf.token.got

\* C14: after a successful withdrawal request withdraw returns the first
\* candidate that holds an id, in the order decoded withdrawal id, decoded
\* client id, raw withdrawalId, raw orderId, raw clientOid (so a receipt with
\* only clientOid yields it), and False when none does.
C14_FirstIdCandidate ==
    WithdrawalSucceeded =>
        LET d == wf.token.data
        IN wf.result =
             (IF d.withdrawalId \in NumericIds THEN d.withdrawalId
              ELSE IF d.clientOid \in NumericIds THEN d.clientOid
              ELSE IF HoldsId(d.withdrawalId) THEN d.withdrawalId
              ELSE IF HoldsId(d.orderId) THEN d.orderId
              ELSE IF HoldsId(d.clientOid) THEN d.clientOid
              ELSE "False")
C14_Witness ==
    /\ WithdrawalSucceeded
    /\ wf.token.data = [withdrawalId |-> NONE, orderId |-> NONE, clientOid |-> "abc"]
    /\ wf.result = "abc"


\* ============================================================================
\* The withdrawal history: check_withdrawal_status and try_to_get_tx_hash
\* ============================================================================
\* the rows the exchange may hold
HistoryRecords ==
    {HistRecord("77", NONE, NONE, NameABO, Address, "SUCCESS", "h1", NONE),
     HistRecord("88", NONE, NONE, NameABO, Address, "pending", NONE, NONE),
     HistRecord("77", NONE, NONE, NameO1, Address, "Done", NONE, "h2"),
     HistRecord("x5", NONE, "abc", NameABO, "0xB", NONE, "h3", NONE),
     HistRecord(NONE, NONE, "abc", NameABO, Address, "success", "h4", NONE),
     HistRecord(NONE, "88", "77", NameO1, "0xB", "failed", "h5", NONE),
     HistRecord("5", NONE, NONE, NameO1, "0xB", "pending", "h6", NONE)}
MaxRecords == 2    \* rows in the withdrawal history
HistoryTables == UNION {[1..n -> HistoryRecords] : n \in 0..MaxRecords}
\* the addresses and chains asked about: those of the rows, and the same
\* address and chain in another spelling
Destinations == {Address, "0xB", "0xa"}
HistoryChains == {NameABO, NameO1, NameAbDashO}
WithdrawalIds == {NONE, "77", "88", "0", "abc", "x5"}

\* lines 226-241 of withdrawal_history: the query of a lookup
HistoryQuery(key, value, coin) == Params(key, coin, 0, value, 0, <<>>, "")
Looked(key) == [kind |-> key, sub |-> 0, amount |-> 0, chain |-> <<>>]

\* check_withdrawal_status line 477: up to the await of withdrawal_history
StartCheckStatus ==
    /\ wf.fn = "none"
    /\ calls < MaxActions
    /\ \E to_address \in Destinations, chain \in HistoryChains, table \in HistoryTables :
         LET w == [NoWf EXCEPT !.fn = "check_withdrawal_status", !.addr = to_address,
                               !.chain = chain]
         IN /\ exch' = [exch EXCEPT !.records = table]
            /\ IF ~client
               THEN /\ wf' = Raised(w, "AttributeError")
                    /\ rq' = Idle
               ELSE /\ wf' = [w EXCEPT !.pc = "history"]
                    /\ rq' = MakeRequestEnter(offset["asset"], "asset", GET, HistoryPath,
                                              HistoryQuery("coin", NONE, "ETH"))
    /\ issued' = <<>>
    /\ calls' = calls + 1
    /\ UNCHANGED <<now, offset, masterUid, creds, client, op, mode, history, infoHistory>>

\* check_withdrawal_status lines 479-489: withdrawal_history has ended
CheckStatusDone ==
    /\ wf.fn = "check_withdrawal_status"
    /\ wf.pc = "history"
    /\ rq.pc = "done"
    /\ wf' = IF rq.result.kind = "raise" THEN Raised(wf, rq.result.exc.type)
             ELSE [wf EXCEPT !.pc = "done",
                             !.result = CheckStatus(WithdrawalHistory(rq.result.value),
                                                    wf.addr, wf.chain)]
    /\ rq' = Idle
    /\ UNCHANGED <<now, offset, masterUid, creds, client, exch, op, issued, calls, mode,
                   history, infoHistory>>

\* try_to_get_tx_hash: the lookup with the given key begins
TxLookup(w, key, off) ==
    [wf |-> [w EXCEPT !.pc = key],
     rq |-> MakeRequestEnter(off, "asset", GET, HistoryPath, HistoryQuery(key, w.id, "")),
     issued |-> <<Looked(key)>>]

\* try_to_get_tx_hash lines 285-294: up to the first await
StartTxHash ==
    /\ wf.fn = "none"
    /\ calls < MaxActions
    /\ \E wd_id \in WithdrawalIds, table \in HistoryTables :
         LET w == [NoWf EXCEPT !.fn = "try_to_get_tx_hash", !.id = wd_id]
             first == TxLookup(w, IF IsDigit(wd_id) THEN "orderId" ELSE "clientOid",
                               offset["asset"])
         IN /\ exch' = [exch EXCEPT !.records = table]
            /\ IF wd_id = NONE \/ ~client
               THEN /\ wf' = [w EXCEPT !.pc = "done"]
                    /\ rq' = Idle
                    /\ issued' = <<>>
               ELSE /\ wf' = first.wf
                    /\ rq' = first.rq
                    /\ issued' = first.issued
    /\ calls' = calls + 1
    /\ UNCHANGED <<now, offset, masterUid, creds, client, op, mode, history, infoHistory>>

\* try_to_get_tx_hash lines 290-327: a lookup has ended; the next one
\* begins, or the records found so far are searched
TxLookupDone ==
    /\ wf.fn = "try_to_get_tx_hash"
    /\ wf.pc \in {"orderId", "withdrawalId", "clientOid"}
    /\ rq.pc = "done"
    /\ IF rq.result.kind = "raise"
       THEN /\ wf' = [wf EXCEPT !.pc = "done", !.result = TxHashIn(wf.candidates, wf.id)]
            /\ rq' = Idle
            /\ UNCHANGED issued
       ELSE LET w == [wf EXCEPT !.candidates =
                          Append(wf.candidates, WithdrawalHistory(rq.result.value))]
            IN IF wf.pc = "clientOid"
               THEN /\ wf' = [w EXCEPT !.pc = "done",
                                       !.result = TxHashIn(w.candidates, w.id)]
                    /\ rq' = Idle
                    /\ UNCHANGED issued
               ELSE LET next == TxLookup(w, IF wf.pc = "orderId" THEN "withdrawalId"
                                            ELSE "clientOid", offset["asset"])
                    IN /\ wf' = next.wf
                       /\ rq' = next.rq
                       /\ issued' = issued \o next.issued
    /\ UNCHANGED <<now, offset, masterUid, creds, client, exch, op, calls, mode,
                   history, infoHistory>>

\* the operations of BitgetActions on the withdrawal history
InitHistory == InitCommon /\ mode = "history"
NextHistory ==
    NewActions \/ StartCheckStatus \/ CheckStatusDone \/ StartTxHash \/ TxLookupDone
    \/ WfReturn \/ SyncTime \/ SendFirst \/ SendRetry
SpecHistory == InitHistory /\ [][NextHistory]_vars


\* ---------------------------------------------------------------- C15
StatusReturned ==
    wf.fn = "check_withdrawal_status" /\ wf.pc = "done" /\ wf.raised = ""
MatchingRows ==
    {k \in 1..Len(exch.records) :
        exch.records[k].chain = wf.chain /\ exch.records[k].to = wf.addr}
IsCompleted(r) == r.state # NONE /\ LowerStr(r.state) \in CompletedStates

\* C15: check_withdrawal_status returns true only when a row of the history
\* is to the address asked about, on the chain asked about, and in a state
\* of {success, completed, done, finished}; it returns false when every such
\* row is in another state and when there is no such row.
C15_TrueOnlyForCompletedMatch ==
    StatusReturned =>
        /\ wf.result \in {PyTrue, PyFalse}
        /\ wf.result = PyTrue => \E k \in MatchingRows : IsCompleted(exch.records[k])
        /\ (\A k \in MatchingRows : ~IsCompleted(exch.records[k])) => wf.result = PyFalse
C15_Witness ==
    /\ StatusReturned
    /\ wf.result = PyTrue
    /\ Len(exch.records) = 2
    /\ 1 \notin MatchingRows


\* ---------------------------------------------------------------- C16
TxHashCalled == wf.fn = "try_to_get_tx_hash"
TxHashEnded == TxHashCalled /\ wf.pc = "done"
ExpectedLookups ==
    IF wf.id = NONE \/ ~client THEN <<>>
    ELSE IF IsDigit(wf.id) THEN <<Looked("orderId"), Looked("withdrawalId"), Looked("clientOid")>>
    ELSE <<Looked("clientOid")>>
Range(f) == {f[x] : x \in DOMAIN f}
ReturnedRecords == {r.rec.data : r \in UNION {Range(c) : c \in Range(wf.candidates)}}
HasIdentifier(r, id) == id \in {r.withdrawalId, r.orderId, r.clientOid}
HashesOf(r) == {r.txId, r.txHash} \ {NONE, ""}

\* C16: try_to_get_tx_hash looks the id up by orderId, then by wdId, then by
\* clientOid when the id is digits only and by clientOid only when it is
\* not, stopping at a lookup that fails; a hash it returns is the hash of a
\* returned record one of whose identifiers equals the id; it never raises.
C16_LookupOrderAndOwnHash ==
    TxHashCalled =>
        /\ wf.raised = ""
        /\ Len(issued) <= Len(ExpectedLookups)
        /\ issued = SubSeq(ExpectedLookups, 1, Len(issued))
        /\ TxHashEnded =>
              /\ Len(wf.candidates) = Len(ExpectedLookups)
                    \/ Len(issued) = Len(wf.candidates) + 1
              /\ wf.result # NONE =>
                    \E r \in ReturnedRecords :
                        HasIdentifier(r, wf.id) /\ wf.result \in HashesOf(r)


\* ============================================================================
\* The chain lookups: _resolve_chain_name, get_minimal_withdrawal and
\* get_withdrawal_fee
\* ============================================================================
\* get_minimal_withdrawal lines 158-161 and get_withdrawal_fee lines 225-228:
\* up to the await of asset.currencies; there is no check of an empty chain
StartLimit ==
    /\ wf.fn = "none"
    /\ calls < MaxActions
    /\ \E fn \in {"get_minimal_withdrawal", "get_withdrawal_fee"},
          token_symbol \in Symbols, chain \in ChainsOffered, coins \in TablesOffered :
         LET w == [NoWf EXCEPT !.fn = fn, !.sym = token_symbol, !.chain = chain,
                               !.want = Norm(chain)]
         IN /\ exch' = [exch EXCEPT !.coins = coins]
            /\ IF ~client
               THEN /\ wf' = Raised(w, "AttributeError")
                    /\ rq' = Idle
               ELSE /\ wf' = [w EXCEPT !.pc = "limit"]
                    /\ rq' = MakeRequestEnter(offset["asset"], "asset", GET, CoinsPath,
                                              CoinsQuery(w.sym))
    /\ issued' = <<>>
    /\ calls' = calls + 1
    /\ UNCHANGED <<now, offset, masterUid, creds, client, op, mode, history, infoHistory>>

\* get_minimal_withdrawal lines 162-205 and get_withdrawal_fee lines 229-273:
\* asset.currencies has ended; candidates keeps the entry selected
LimitDone ==
    /\ wf.fn \in {"get_minimal_withdrawal", "get_withdrawal_fee"}
    /\ wf.pc = "limit"
    /\ rq.pc = "done"
    /\ wf' = IF rq.result.kind = "raise" THEN Raised(wf, rq.result.exc.type)
             ELSE LET target == SelectChain(rq.result.value.data.coins, wf.sym, wf.want)
                  IN [wf EXCEPT !.pc = "done",
                                !.candidates = target,
                                !.result =
                                    IF target = <<>> THEN NONE
                                    ELSE IF wf.fn = "get_minimal_withdrawal"
                                    THEN FirstNumber(MinimalFields(target[1]))
                                    ELSE FirstNumber(FeeFields(target[1]))]
    /\ rq' = Idle
    /\ UNCHANGED <<now, offset, masterUid, creds, client, exch, op, issued, calls, mode,
                   history, infoHistory>>

InitLookup == InitCommon /\ mode = "lookup"
NextLookup ==
    NewActions \/ StartResolve \/ ResolveDone \/ StartLimit \/ LimitDone \/ WfReturn
    \/ SyncTime \/ SendFirst \/ SendRetry
SpecLookup == InitLookup /\ [][NextLookup]_vars


\* ---------------------------------------------------------------- C17
ResolveReturned == wf.fn = "_resolve_chain_name" /\ wf.pc = "done" /\ wf.raised = ""
CoinOf(coins, token_symbol) ==
    IF FindCoin(coins, UpperSym(token_symbol)) # <<>>
    THEN FindCoin(coins, UpperSym(token_symbol))
    ELSE FindCoin(coins, LowerSym(UpperSym(token_symbol)))
ChainList(coins, token_symbol) ==
    IF CoinOf(coins, token_symbol) = <<>> THEN <<>> ELSE CoinOf(coins, token_symbol)[1].chains
AliasFits(n, want) == Norm(n) = want \/ Contains(Norm(n), want) \/ Contains(want, Norm(n))
NonEmptyAliasFits(c, want) ==
    \E k \in 1..Len(Names(c)) : Names(c)[k] # <<>> /\ AliasFits(Names(c)[k], want)

\* C17: _resolve_chain_name returns None whenever no chain entry of the
\* symbol's chain list has a non-empty alias that, normalized, equals the
\* normalized user string, contains it or is contained in it; also for an
\* empty user string and for an unknown symbol.
C17_UnmatchedIsNone ==
    ResolveReturned =>
        LET chains == ChainList(exch.coins, wf.sym)
        IN /\ (\A k \in 1..Len(chains) : ~NonEmptyAliasFits(chains[k], Norm(wf.chain)))
                 => wf.resolved = NoStr
           /\ wf.chain = <<>> => wf.resolved = NoStr
           /\ CoinOf(exch.coins, wf.sym) = <<>> => wf.resolved = NoStr


\* ---------------------------------------------------------------- C18
\* a step in which _resolve_chain_name returns, and the coin list it is
\* answered from (the exchange's own when it returns before asking)
ResolveReturns ==
    /\ wf.pc # "done"
    /\ wf'.fn = "_resolve_chain_name" /\ wf'.pc = "done" /\ wf'.raised = ""
ListSeen == IF wf.pc = "resolve" THEN rq.result.value.data.coins ELSE exch'.coins
ResolveChainName(coins, token_symbol, user_chain) ==
    IF Norm(user_chain) = <<>> THEN NoStr
    ELSE ResolveInCoins(coins, token_symbol, Norm(user_chain))
HasAliasOfForm(coins, token_symbol, form) ==
    \E k \in 1..Len(ChainList(coins, token_symbol)) :
        \E n \in Range(Names(ChainList(coins, token_symbol)[k])) : Norm(n) = form
CanonicalNames(coins, token_symbol) ==
    {CanonicalName(c) : c \in {d \in Range(ChainList(coins, token_symbol)) : Names(d) # <<>>}}
SameForAllSpellings ==
    /\ wf'.resolved = ResolveChainName(ListSeen, wf'.sym, wf'.chain)
    /\ \A other \in LookupChains :
          Norm(other) = Norm(wf'.chain) =>
              ResolveChainName(ListSeen, wf'.sym, other) = wf'.resolved

\* C18 as stated: user strings with one normalized form resolve alike, and
\* when a chain of the list has an alias of that form the result is a
\* canonical chain name of the list, not None.
C18_Original ==
    [][ResolveReturns =>
          /\ SameForAllSpellings
          /\ HasAliasOfForm(ListSeen, wf'.sym, Norm(wf'.chain)) =>
                /\ wf'.resolved # NoStr
                /\ wf'.resolved \in CanonicalNames(ListSeen, wf'.sym)]_vars

\* C18, narrowed: user strings with one normalized form resolve alike, and
\* when that form is not empty and a chain of the list has an alias of that
\* form the result is not None and is the canonical name of an entry of the
\* list.
C18_SpellingInsensitive ==
    [][ResolveReturns =>
          /\ SameForAllSpellings
          /\ (Norm(wf'.chain) # <<>> /\ HasAliasOfForm(ListSeen, wf'.sym, Norm(wf'.chain))) =>
                /\ wf'.resolved # NoStr
                /\ wf'.resolved \in CanonicalNames(ListSeen, wf'.sym)]_vars
C18_Witness ==
    /\ ResolveReturned
    /\ wf.chain = <<"A", "B", "-", "O">>
    /\ wf.resolved = NameAbDashO


\* ---------------------------------------------------------------- C19
\* a step in which get_minimal_withdrawal or get_withdrawal_fee returns
LimitReturns == wf.pc = "limit" /\ wf'.pc = "done" /\ wf'.raised = ""
\* the entry _resolve_chain_name matches, <<>> when it resolves nothing
ResolvedEntry(coins, token_symbol, user_chain) ==
    LET chains == ChainList(coins, token_symbol)
        hits == {k \in 1..Len(chains) : ChainMatches(chains[k], Norm(user_chain))}
    IN IF Norm(user_chain) = <<>> \/ hits = {} THEN <<>>
       ELSE <<chains[CHOOSE m \in hits : \A n \in hits : m <= n]>>
FirstPresent(vals) ==
    LET hits == {k \in 1..Len(vals) : vals[k] # NONE}
    IN IF hits = {} THEN NONE ELSE vals[CHOOSE m \in hits : \A n \in hits : m <= n]
SelectsAsResolve ==
    LET seen == rq.result.value.data.coins
    IN /\ wf'.candidates # <<>> <=> ResolveChainName(seen, wf.sym, wf.chain) # NoStr
       /\ wf'.candidates = ResolvedEntry(seen, wf.sym, wf.chain)
ReturnsFirstPresent ==
    wf'.candidates # <<>> =>
        wf'.result = FirstPresent(IF wf.fn = "get_minimal_withdrawal"
                                  THEN MinimalFields(wf'.candidates[1])
                                  ELSE FeeFields(wf'.candidates[1]))

\* C19: get_minimal_withdrawal and get_withdrawal_fee select a chain entry
\* exactly when _resolve_chain_name resolves the user string on the same
\* coin data, the entry selected is the one _resolve_chain_name matched, and
\* the value returned is the first present field of the ordered list.
C19_SameResolution == [][LimitReturns => SelectsAsResolve /\ ReturnsFirstPresent]_vars


\* ============================================================================
\* Balance payloads decoded by FundingToken
\* ============================================================================
MaxAmount == 3    \* largest amount of a balance field
BalanceFields == {Absent} \cup {Given(a) : a \in 0..MaxAmount}
BalancePayloads ==
    {Balances(a, f, t) : a \in BalanceFields, f \in BalanceFields, t \in BalanceFields}

\* Subaccount.asset_balances line 93 and Asset.py line 133: a row of
\* balances is decoded
DecodeFunding ==
    /\ wf.fn = "none"
    /\ calls < MaxActions
    /\ \E data \in BalancePayloads :
         wf' = [NoWf EXCEPT !.fn = "FundingToken", !.pc = "done", !.payload = data,
                            !.funding = FundingToken(data)]
    /\ calls' = calls + 1
    /\ UNCHANGED <<now, offset, masterUid, creds, client, exch, rq, op, issued, mode,
                   history, infoHistory>>

InitFunding == InitCommon /\ mode = "funding"
NextFunding == DecodeFunding \/ WfReturn
SpecFunding == InitFunding /\ [][NextFunding]_vars

\* ---------------------------------------------------------------- C20
Decoded == wf.fn = "FundingToken" /\ wf.pc = "done"

\* C20: when total is absent, total = available + frozen; when frozen is
\* absent and total >= available, frozen = total - available; when all three
\* are supplied the decoded values are the supplied ones.
C20_BalanceNormalization ==
    Decoded =>
        LET d == wf.payload
            t == wf.funding
        IN /\ ~d.total.given => t.bal = t.availBal + t.frozenBal
           /\ (~d.frozen.given /\ t.bal >= t.availBal) => t.frozenBal = t.bal - t.availBal
           /\ (d.available.given /\ d.frozen.given /\ d.total.given) =>
                 /\ t.availBal = d.available.amount
                 /\ t.frozenBal = d.frozen.amount
                 /\ t.bal = d.total.amount


\* ============================================================================
\* Rows decoded into Deposit, Withdrawal, WithdrawalToken, Transfer and
\* FundingToken records
\* ============================================================================
RecordClasses == {"Deposit", "Withdrawal", "WithdrawalToken", "Transfer", "FundingToken"}
FieldValues == {Absent, Malformed} \cup {Given(a) : a \in -1..MaxAmount}

\* a well-formed row, and the rows that differ from it in one field or in
\* having no data payload
BaseRow(cls) ==
    DataRow(cls, TRUE, Given(1), Given(1), Given(1), Given(1), Given(1), Given(1),
            Balances(Given(1), Given(1), Given(2)))
RowsOf(cls) ==
    LET b == BaseRow(cls)
    IN {[b EXCEPT !.present = FALSE]}
       \cup {[b EXCEPT !.size = v] : v \in FieldValues}
       \cup {[b EXCEPT !.fee = v] : v \in FieldValues}
       \cup {[b EXCEPT !.ts = v] : v \in FieldValues}
       \cup {[b EXCEPT !.id = v] : v \in FieldValues}
       \cup {[b EXCEPT !.client = v] : v \in FieldValues}
       \cup {[b EXCEPT !.confirmations = v] : v \in FieldValues}
       \cup {[b EXCEPT !.balances.available = v] : v \in FieldValues}
       \cup {[b EXCEPT !.balances.frozen = v] : v \in FieldValues}
       \cup {[b EXCEPT !.balances.total = v] : v \in FieldValues}
       \cup {[b EXCEPT !.balances = p] : p \in BalancePayloads}
DataRows == UNION {RowsOf(cls) : cls \in RecordClasses}

\* Asset.py lines 133, 187, 267, 315, 393 and Subaccount.py line 93: a row
\* of a response is handed to the constructor of its record class
DecodeRow ==
    /\ wf.fn = "none"
    /\ calls < MaxActions
    /\ \E d \in DataRows :
         wf' = [NoWf EXCEPT !.fn = "decode", !.pc = "done", !.row = d, !.rec = Decode(d),
                            !.raised = Decode(d).exc]
    /\ calls' = calls + 1
    /\ UNCHANGED <<now, offset, masterUid, creds, client, exch, rq, op, issued, mode,
                   history, infoHistory>>

InitDecode == InitCommon /\ mode = "decode"
NextDecode == DecodeRow \/ WfReturn
SpecDecode == InitDecode /\ [][NextDecode]_vars

\* ---------------------------------------------------------------- C21
RowDecoded == wf.fn = "decode" /\ wf.pc = "done"
FailsToParse(field) == field.given /\ ~field.num

\* C21: decoding a row never fails the whole record because one optional
\* field (fee, timestamp, confirmations, client id, an absent data payload)
\* is missing or malformed: the record is produced, and a numeric field that
\* fails to parse is zero or None in it.
C21_DecodingNeverFails ==
    RowDecoded =>
        /\ wf.rec.exc = ""
        /\ FailsToParse(wf.row.fee) => wf.rec.fee = 0
        /\ FailsToParse(wf.row.ts) => wf.rec.ts = 0
        /\ FailsToParse(wf.row.client) => wf.rec.clientId = Absent
        /\ FailsToParse(wf.row.confirmations) => wf.rec.confirm = Absent


\* ============================================================================
\* BITGETClient.py: construction of a BitgetClient
\* ============================================================================
\* lines 24-28
CANDIDATE_ENDPOINTS ==
    <<"https://api.bitget.com", "https://api.bitgetglobal.com", "https://capi.bitget.com">>
Entrypoints == {"https://api.bitget.com", "https://bitget.example"}
Proxies == {"", "1.2.3.4:80", "http://1.2.3.4:80", "socks5://1.2.3.4:80"}

\* lines 56-59: the scheme a proxy string is given
ProxyUrl(proxy) ==
    CASE proxy = "1.2.3.4:80" -> "http://1.2.3.4:80"
      [] proxy = "socks5://1.2.3.4:80" -> "socks5h://1.2.3.4:80"
      [] OTHER -> proxy

\* lines 62-68: what the self-test of the proxy may give: no answer (an
\* exception of requests), the proxy's address, another address
SelfTests == {"unreachable", "1.2.3.4", "5.6.7.8"}
\* lines 54-72: the constructor raises InvalidProxy
ProxyFatal(proxy, check_proxy, test) ==
    proxy # "" /\ check_proxy /\ test = "unreachable"

\* __init__ lines 51-72: up to the call of _ensure_reachable_endpoint
NewBitgetClient ==
    /\ wf.fn = "none"
    /\ calls < MaxActions
    /\ \E entrypoint_url \in Entrypoints, proxy \in Proxies, check_proxy \in BOOLEAN,
          test \in SelfTests :
         LET w == [NoWf EXCEPT !.fn = "BitgetClient", !.configured = entrypoint_url,
                               !.entrypoint_url = entrypoint_url,
                               !.proxy = ProxyUrl(proxy),
                               !.via = IF proxy # "" /\ check_proxy THEN test ELSE ""]
         IN wf' = IF ProxyFatal(proxy, check_proxy, test)
                  THEN Raised(w, "InvalidProxy")
                  ELSE [w EXCEPT !.pc = "probe"]
    /\ calls' = calls + 1
    /\ UNCHANGED <<now, offset, masterUid, creds, client, exch, rq, op, issued, mode,
                   history, infoHistory>>

Probed(url, ok) == [url |-> url, ok |-> ok]

\* _ensure_reachable_endpoint line 83 with _probe_endpoint lines 91-109: the
\* configured entrypoint is probed
ProbeConfigured ==
    /\ wf.fn = "BitgetClient"
    /\ wf.pc = "probe"
    /\ \E ok \in BOOLEAN :
         wf' = [wf EXCEPT !.probes = Append(wf.probes, Probed(wf.entrypoint_url, ok)),
                          !.pc = IF ok THEN "build" ELSE "fallback",
                          !.i = 1]
    /\ UNCHANGED <<now, offset, masterUid, creds, client, exch, rq, op, issued, calls, mode,
                   history, infoHistory>>

\* a failover that keeps the configured entrypoint
AdoptMut(w, url) == w
\* line 86: the fallback that answered becomes the entrypoint
Adopt(w, url) == [w EXCEPT !.entrypoint_url = url]

\* _ensure_reachable_endpoint lines 84-87: the next fallback is probed
ProbeFallback ==
    /\ wf.fn = "BitgetClient"
    /\ wf.pc = "fallback"
    /\ \E ok \in BOOLEAN :
         LET url == CANDIDATE_ENDPOINTS[wf.i]
             w == [wf EXCEPT !.probes = Append(wf.probes, Probed(url, ok))]
         IN wf' = IF ok THEN [Adopt(w, url) EXCEPT !.pc = "build"]
                  ELSE IF wf.i = Len(CANDIDATE_ENDPOINTS) THEN [w EXCEPT !.pc = "build"]
                  ELSE [w EXCEPT !.i = wf.i + 1]
    /\ UNCHANGED <<now, offset, masterUid, creds, client, exch, rq, op, issued, calls, mode,
                   history, infoHistory>>

\* __init__ lines 77-78: the Asset and the Subaccount are built
BuildClients ==
    /\ wf.fn = "BitgetClient"
    /\ wf.pc = "build"
    /\ wf' = [wf EXCEPT !.pc = "done",
                        !.built = [asset |-> wf.entrypoint_url,
                                   subaccount |-> wf.entrypoint_url]]
    /\ UNCHANGED <<now, offset, masterUid, creds, client, exch, rq, op, issued, calls, mode,
                   history, infoHistory>>

InitClient == InitCommon /\ mode = "client"
NextClient == NewBitgetClient \/ ProbeConfigured \/ ProbeFallback \/ BuildClients \/ WfReturn
SpecClient == InitClient /\ [][NextClient]_vars

\* ---------------------------------------------------------------- C22
Constructed == wf.fn = "BitgetClient" /\ wf.pc = "done" /\ wf.raised = ""
ReachableAt(k) == wf.probes[k].ok
FallbackProbes == SubSeq(wf.probes, 2, Len(wf.probes))

\* C22: the configured entrypoint is kept when its time endpoint answers;
\* otherwise the entrypoint is the first fallback, in the order of the list,
\* whose time endpoint answers; when none answers the configured entrypoint
\* is kept; Asset and Subaccount are built with the entrypoint so chosen.
C22_EndpointFailover ==
    Constructed =>
        /\ wf.probes[1].url = wf.configured
        /\ ReachableAt(1) => wf.entrypoint_url = wf.configured /\ Len(wf.probes) = 1
        /\ ~ReachableAt(1) =>
              /\ \A k \in 1..Len(FallbackProbes) : FallbackProbes[k].url = CANDIDATE_ENDPOINTS[k]
              /\ \A k \in 1..(Len(FallbackProbes) - 1) : ~FallbackProbes[k].ok
              /\ IF \E k \in 1..Len(FallbackProbes) : FallbackProbes[k].ok
                 THEN wf.entrypoint_url = FallbackProbes[Len(FallbackProbes)].url
                 ELSE /\ Len(FallbackProbes) = Len(CANDIDATE_ENDPOINTS)
                      /\ wf.entrypoint_url = wf.configured
        /\ wf.built.asset = wf.entrypoint_url
        /\ wf.built.subaccount = wf.entrypoint_url
C22_Witness ==
    /\ Constructed
    /\ wf.configured = "https://bitget.example"
    /\ Len(wf.probes) = 3
    /\ wf.entrypoint_url = "https://api.bitgetglobal.com"

\* ---------------------------------------------------------------- C23
ConstructionEnded == wf.fn = "BitgetClient" /\ wf.pc = "done"

\* C23: constructing a BitgetClient with a configured proxy completes, with
\* both clients built, when the proxy is unreachable as well as when the
\* self-test reports another address than the proxy's.
C23_ProxyErrorNotFatal ==
    (ConstructionEnded /\ wf.proxy # "") =>
        /\ wf.raised = ""
        /\ wf.built.asset # "" /\ wf.built.subaccount # ""


\* ---------------------------------------------------------------- C24
\* C24: in make_request a non-empty body of a GET goes into the query string
\* of the path, and the body transmitted and signed is empty; a non-empty body
\* of a POST is transmitted as one compact JSON document and the path is sent
\* as given.
C24_BodyPlacement ==
    \A k \in 1..Len(rq.wire) :
        LET t == rq.wire[k]
        IN rq.args # EmptyParams =>
              /\ rq.method = GET =>
                    /\ t.path.query = rq.args
                    /\ t.body = [enc |-> "empty", of |-> EmptyParams]
                    /\ t.sign.body = [enc |-> "empty", of |-> EmptyParams]
              /\ rq.method = POST =>
                    /\ t.path.query = EmptyParams
                    /\ t.body = [enc |-> "json", of |-> rq.args]
                    /\ t.sign.body = t.body
C24_Witness ==
    /\ Len(rq.wire) = 2
    /\ rq.method = GET
    /\ rq.args # EmptyParams
    /\ rq.wire[2].path.query = rq.args


\* ---------------------------------------------------------------- C25
\* a step of try_to_get_tx_hash in which withdrawal_history returns its
\* map, the rows it was answered with and the map
HistoryReturns ==
    /\ wf.fn = "try_to_get_tx_hash"
    /\ wf'.fn = "try_to_get_tx_hash"
    /\ Len(wf'.candidates) = Len(wf.candidates) + 1
RowsAnswered == rq.result.value.data.records
MapReturned == wf'.candidates[Len(wf'.candidates)]
\* lines 244-251: the id of a row, its first identifier that is present
RawId(r) == OrElse(r.withdrawalId, OrElse(r.orderId, r.clientOid))
KeyOf(r, map) == {map[k].key : k \in {n \in 1..Len(map) : map[n].rec.data = r}}

\* C25: the map of withdrawal_history holds every row that has an id, and
\* two rows of one answer with different ids are held under different keys,
\* neither replacing the other.
C25_NoRecordUnderAnothersId ==
    [][HistoryReturns =>
          /\ \A i \in 1..Len(RowsAnswered) :
                RawId(RowsAnswered[i]) # NONE => KeyOf(RowsAnswered[i], MapReturned) # {}
          /\ \A i, j \in 1..Len(RowsAnswered) :
                (/\ RawId(RowsAnswered[i]) # NONE
                 /\ RawId(RowsAnswered[j]) # NONE
                 /\ RawId(RowsAnswered[i]) # RawId(RowsAnswered[j]))
                => KeyOf(RowsAnswered[i], MapReturned) \cap KeyOf(RowsAnswered[j], MapReturned) = {}]_vars


\* ------------------------------------ two flows on one Asset instance
\* Two tasks of one event loop call Asset.transfer on the same instance.  A
\* task runs without interruption from one await that suspends it (the time
\* query of _sync_time, the signed transmission of make_request) to the
\* next; wf.flows holds each task's position and local variables, wf.lead
\* the exchange's clock lead over the local clock, and wf.seen what has
\* happened so far: a query that failed (faults), an info answer without a
\* user id (nameless).
MaxFlows == 2
Flow(subAcct) ==
    [sub |-> subAcct, pc |-> "start", req |-> "", uid |-> NONE, ts |-> 0, at |-> 0,
     result |-> Pending]
AssetOffset(off) == off["asset"]

\* make_request lines 118-160 up to its first await: the lazy time query when
\* the offset is 0, else the timestamp and the transmission
Entered(fl, req, off) ==
    IF NeedsInitialSync(off) THEN [fl EXCEPT !.req = req, !.pc = "sync"]
    ELSE [fl EXCEPT !.req = req, !.pc = "send",
                    !.ts = TimestampWithOffset(now, off), !.at = now]
Queries(before, after) ==
    IF after.pc \in {"sync", "resync"} /\ after.pc # before.pc THEN 1 ELSE 0
InfoSent(before, after) ==
    IF after.req = "info" /\ after.pc \in {"send", "resend"}
       /\ (before.pc # after.pc \/ before.req # after.req) THEN 1 ELSE 0
Counted(before, after) ==
    /\ timeQueries' = [timeQueries EXCEPT !["asset"] = @ + Queries(before, after)]
    /\ infoQueries' = infoQueries + InfoSent(before, after)
    /\ issued' = IF after.req = "transfer" /\ after.pc \in {"send", "resend"}
                    /\ before.pc # after.pc
                 THEN Append(issued, TransferBody(1, after.sub, after.uid))
                 ELSE issued

\* Asset.transfer lines 364-386 with _get_master_uid lines 37-45: the cached
\* user id is used when there is one, else the account info is requested
FlowStart(f) ==
    /\ f \in DOMAIN wf.flows
    /\ wf.flows[f].pc = "start"
    /\ LET fl == wf.flows[f]
           after == IF fl.sub # 0 /\ ~HasCachedUid(masterUid)
                    THEN Entered(fl, "info", AssetOffset(offset))
                    ELSE Entered([fl EXCEPT !.uid = IF fl.sub # 0 THEN masterUid ELSE NONE],
                                 "transfer", AssetOffset(offset))
       IN /\ wf' = [wf EXCEPT !.flows[f] = after]
          /\ Counted(fl, after)
    /\ UNCHANGED <<now, offset, masterUid, creds, client, exch, rq, op, calls, mode,
                   signedSent, staleSeen, infoResolved>>

\* _sync_time lines 57-71 has its answer; make_request goes on to stamp and
\* transmit (lines 120-160, or 180-196 after a stale-timestamp answer)
FlowSynced(f) ==
    /\ f \in DOMAIN wf.flows
    /\ wf.flows[f].pc \in {"sync", "resync"}
    /\ \E t \in {[ok |-> TRUE, skew |-> wf.lead], [ok |-> FALSE, skew |-> 0]} :
         LET fl == wf.flows[f]
             off == SyncedOffset(AssetOffset(offset), t)
             after == [fl EXCEPT !.pc = IF fl.pc = "sync" THEN "send" ELSE "resend",
                                 !.ts = TimestampWithOffset(now, off), !.at = now]
         IN /\ offset' = [offset EXCEPT !["asset"] = off]
            /\ wf' = [wf EXCEPT !.flows[f] = after, !.seen.faults = @ \/ ~t.ok]
            /\ Counted(fl, after)
    /\ UNCHANGED <<now, masterUid, creds, client, exch, rq, op, calls, mode,
                   signedSent, staleSeen, infoResolved>>

\* the answers of the exchange to a signed transmission: a timestamp that is
\* not its own time at the transmission is rejected as stale
Answers(fl) ==
    {Resp("exc", NONE, "timeout", NoData, 503)}
    \cup (IF fl.ts # fl.at + wf.lead THEN {Resp("dict", StaleCode, "stale", NoData, NoStatus)}
          ELSE IF fl.req = "info"
          THEN {Success(Data("info", MasterUserId, <<>>, <<>>, NoReceipt)),
                Success(Payload("info"))}
          ELSE {Success(Payload("transfer"))})

\* make_request lines 163-210 has an answer; on the info answer
\* _get_master_uid (lines 51-57) stores the user id and transfer goes on to
\* its own request
FlowAnswered(f) ==
    /\ f \in DOMAIN wf.flows
    /\ wf.flows[f].pc \in {"send", "resend"}
    /\ \E r \in Answers(wf.flows[f]) :
         LET fl == wf.flows[f]
             a == IF fl.pc = "send" THEN AfterFirstResponse(r) ELSE AfterRetryResponse(r)
             uid == MasterUidOf(r).uid
             after == IF a.next = "resync" THEN [fl EXCEPT !.pc = "resync"]
                      ELSE IF a.result.kind = "raise" \/ fl.req = "transfer"
                      THEN [fl EXCEPT !.pc = "done", !.result = a.result]
                      ELSE Entered([fl EXCEPT !.uid = uid], "transfer", AssetOffset(offset))
             stored == a.next = "done" /\ a.result.kind = "return" /\ fl.req = "info"
         IN /\ wf' = [wf EXCEPT !.flows[f] = after,
                                !.seen.faults = @ \/ r.kind = "exc",
                                !.seen.nameless = @ \/ (stored /\ ~HasCachedUid(uid))]
            /\ masterUid' = IF stored THEN uid ELSE masterUid
            /\ Counted(fl, after)
    /\ UNCHANGED <<now, offset, creds, client, exch, rq, op, calls, mode,
                   signedSent, staleSeen, infoResolved>>

FlowStep == \E f \in 1..MaxFlows : FlowStart(f) \/ FlowSynced(f) \/ FlowAnswered(f)

InitConcurrent ==
    /\ now = 0
    /\ offset = FreshOffsets
    /\ masterUid = NONE
    /\ creds = NoCredentials
    /\ client = FALSE
    /\ exch = NoExchange
    /\ rq = Idle
    /\ op = NoOp
    /\ \E lead \in Skews : \E subs \in [1..MaxFlows -> {0, 1}] :
         wf = [NoWf EXCEPT !.fn = "transfer", !.lead = lead,
                           !.flows = [f \in 1..MaxFlows |-> Flow(subs[f])]]
    /\ issued = <<>>
    /\ calls = 0
    /\ timeQueries = [i \in Instances |-> 0]
    /\ signedSent = [i \in Instances |-> FALSE]
    /\ staleSeen = [i \in Instances |-> FALSE]
    /\ infoQueries = 0
    /\ infoResolved = 0
    /\ mode = "concurrent"
\* the local clock stands still while the flows run
NextConcurrent == FlowStep
SpecConcurrent == InitConcurrent /\ [][NextConcurrent]_vars


\* ---------------------------------------------------------------- C26
\* what the same transfers cost when one runs after the other has ended, on
\* an exchange that answers every query: the info is asked once, and the
\* time once unless the clocks agree (then once in every request)
NeedUid == {f \in DOMAIN wf.flows : wf.flows[f].sub # 0}
SeqInfo == IF NeedUid # {} THEN 1 ELSE 0
SeqTime == IF wf.lead = 0 THEN SeqInfo + Len(wf.flows) ELSE 1
Untroubled == ~wf.seen.faults /\ ~wf.seen.nameless
\* the flows that can lose a race: all but one
Losers == Len(wf.flows) - 1
Ended(f) == wf.flows[f].pc = "done"
SubTransfersSent == {i \in 1..Len(issued) : issued[i].tag = "subaccount-transfer"}
\* the races leave every flow the result of a sequential run: the transfer's
\* answer when no query failed, and a stale-timestamp error only where the
\* clocks differ and a time query failed
SequentialResults ==
    \A f \in DOMAIN wf.flows :
        Ended(f) =>
           /\ Untroubled => wf.flows[f].result = Return(Success(Payload("transfer")))
           /\ (wf.flows[f].result.kind = "raise" /\ wf.flows[f].result.exc.code = StaleCode)
                 => wf.seen.faults /\ wf.lead # 0

\* C26: two flows on one instance each get the result of a sequential run,
\* every subaccount transfer carries the master's user id, and where no query
\* fails the races cost at most one more time query and one more info query
\* than the sequential run (for each flow beyond the first).
C26_RacesBenign ==
    /\ SequentialResults
    /\ \A i \in SubTransfersSent : issued[i].uid = MasterUserId
    /\ ~wf.seen.faults => /\ timeQueries["asset"] <= SeqTime + Losers
                          /\ infoQueries <= SeqInfo + Losers

\* ---------------------------------------------------------------- C27
\* the monetary amounts of a record
RecordAmounts(rec) ==
    {rec.amt, rec.fee, rec.funding.bal, rec.funding.availBal, rec.funding.frozenBal}
RecordBuilt == wf.fn = "decode" /\ wf.rec.exc = ""

\* C27: no decoded record holds a negative amount, whatever the row.
C27_NonNegativeAmounts == RecordBuilt => \A a \in RecordAmounts(wf.rec) : a >= 0


\* ---------------------------------------------------------------- C28
\* a step in which check_withdrawal_status returns, and the history that
\* withdrawal_history gave it
StatusReturns ==
    /\ wf.fn = "check_withdrawal_status"
    /\ wf.pc = "history"
    /\ wf'.pc = "done"
    /\ wf'.raised = ""
HistoryGiven == WithdrawalHistory(rq.result.value)
ExactlyTo(k) ==
    HistoryGiven[k].rec.chain = wf.chain /\ HistoryGiven[k].rec.to_ = wf.addr
FirstExact(k) == ExactlyTo(k) /\ \A n \in 1..(k - 1) : ~ExactlyTo(n)
TerminalSuccess(k) == LowerStr(HistoryGiven[k].rec.state) \in CompletedStates

QuestFunctions ==
    <<"complete_twitter_galxe_quests", "complete_spritetype_galxe_quests",
      "complete_irysverse_quiz", "complete_daily_irysverse_galxe_quests",
      "complete_irys_other_games_quests">>
ClosingFunctions == <<"get_and_claim_mystery_box", "claim_rewards", "update_points">>
\* random.shuffle: any order of the list
Shuffles(list) ==
    {p \in [1..Len(list) -> Range(list)] : \A x \in Range(list) : \E k \in 1..Len(list) : p[k] = x}
\* what a call that answers true or false can end with, and what a call
\* whose value is not used can end with
Outcomes == {PyTrue, PyFalse, "Exception"}
Endings == {"returned", "Exception"}
Logged(w, name, outcome) == [w EXCEPT !.log = Append(@, [fn |-> name, outcome |-> outcome])]

\* a quest raised and the loop stopped there
AfterQuestMut(w, outcome) ==
    IF outcome = "Exception" THEN Raised(w, "Exception")
    ELSE IF w.i = Len(w.functions) THEN [w EXCEPT !.pc = "closing", !.i = 1]
    ELSE [w EXCEPT !.i = @ + 1]

\* lines 68-72: try / except Exception: continue
AfterQuest(w, outcome) ==
    IF w.i = Len(w.functions) THEN [w EXCEPT !.pc = "closing", !.i = 1]
    ELSE [w EXCEPT !.i = @ + 1]

\* lines 46-47: the call begins, for a wallet whose stored flag is either value
StartGalxe ==
    /\ wf.fn = "none"
    /\ calls < MaxActions
    /\ \E flag \in BOOLEAN :
         wf' = [NoWf EXCEPT !.fn = "complete_galxe_quests", !.pc = "is_account_banned",
                            !.wallet = [galxe_account_banned |-> flag]]
    /\ calls' = calls + 1
    /\ UNCHANGED <<now, offset, masterUid, creds, client, exch, rq, op, issued, mode,
                   history, infoHistory>>

\* lines 49-55: is_account_banned has answered; a banned account is marked
\* and the call returns, a stored flag is cleared otherwise
BanChecked ==
    /\ wf.fn = "complete_galxe_quests"
    /\ wf.pc = "is_account_banned"
    /\ \E outcome \in Outcomes :
         LET w == Logged([wf EXCEPT !.banned = outcome], "is_account_banned", outcome)
         IN wf' = CASE outcome = "Exception" -> Raised(w, "Exception")
                    [] outcome = PyTrue ->
                         [w EXCEPT !.pc = "done", !.wallet.galxe_account_banned = TRUE]
                    [] OTHER ->
                         [w EXCEPT !.pc = "handle_subscribe",
                                   !.wallet.galxe_account_banned = FALSE]
    /\ UNCHANGED <<now, offset, masterUid, creds, client, exch, rq, op, issued, calls, mode,
                   history, infoHistory>>

\* lines 57-67: handle_subscribe has answered; the list is shuffled
Subscribed ==
    /\ wf.fn = "complete_galxe_quests"
    /\ wf.pc = "handle_subscribe"
    /\ \E outcome \in Outcomes, order \in Shuffles(QuestFunctions) :
         LET w == Logged([wf EXCEPT !.subscribed = outcome], "handle_subscribe", outcome)
         IN wf' = IF outcome = "Exception" THEN Raised(w, "Exception")
                  ELSE [w EXCEPT !.pc = "quests", !.functions = order, !.i = 1]
    /\ UNCHANGED <<now, offset, masterUid, creds, client, exch, rq, op, issued, calls, mode,
                   history, infoHistory>>

\* lines 68-72: the next function of the list is called and has ended
QuestDone ==
    /\ wf.fn = "complete_galxe_quests"
    /\ wf.pc = "quests"
    /\ \E outcome \in Endings :
         wf' = AfterQuest(Logged(wf, wf.functions[wf.i], outcome), outcome)
    /\ UNCHANGED <<now, offset, masterUid, creds, client, exch, rq, op, issued, calls, mode,
                   history, infoHistory>>

\* lines 73-75: the mystery box, the rewards and the points, one after
\* another; an exception of one ends the call
ClosingDone ==
    /\ wf.fn = "complete_galxe_quests"
    /\ wf.pc = "closing"
    /\ \E outcome \in Endings :
         LET w == Logged(wf, ClosingFunctions[wf.i], outcome)
         IN wf' = IF outcome = "Exception" THEN Raised(w, "Exception")
                  ELSE IF wf.i = Len(ClosingFunctions) THEN [w EXCEPT !.pc = "done"]
                  ELSE [w EXCEPT !.i = @ + 1]
    /\ UNCHANGED <<now, offset, masterUid, creds, client, exch, rq, op, issued, calls, mode,
                   history, infoHistory>>

InitGalxe == InitCommon /\ mode = "galxe"
NextGalxe == StartGalxe \/ BanChecked \/ Subscribed \/ QuestDone \/ ClosingDone \/ WfReturn
SpecGalxe == InitGalxe /\ [][NextGalxe]_vars


\* ---------------------------------------------------------------- C29
Calls(name) == {k \in 1..Len(wf.log) : wf.log[k].fn = name}
QuestCalls == UNION {Calls(q) : q \in Range(QuestFunctions)}
ClosingCalls == UNION {Calls(c) : c \in Range(ClosingFunctions)}
GalxeOver == wf.fn = "complete_galxe_quests" /\ wf.pc = "done"
\* a banned account is marked and nothing else is called
BannedIsMarked ==
    wf.banned = PyTrue =>
        /\ QuestCalls = {} /\ ClosingCalls = {}
        /\ GalxeOver => wf.wallet.galxe_account_banned
\* the closing calls come in their order, after all five quests
ClosingAfterQuests ==
    /\ \A k \in ClosingCalls : \A q \in Range(QuestFunctions) : \E m \in Calls(q) : m < k
    /\ \A a, b \in 1..Len(ClosingFunctions) :
          a < b => \A k \in Calls(ClosingFunctions[a]), m \in Calls(ClosingFunctions[b]) : k < m
    /\ \A b \in 2..Len(ClosingFunctions) :
          Calls(ClosingFunctions[b]) # {} => Calls(ClosingFunctions[b - 1]) # {}
EachQuestOnce == \A q \in Range(QuestFunctions) : Cardinality(Calls(q)) = 1

\* C29 (as amended): a banned account is marked and no quest, reward or
\* points call is made; for an account reported not banned, once
\* handle_subscribe has returned, each of the five quests is called exactly
\* once whether or not another raised; the mystery box, the rewards and the
\* points are called in that order and only after the five quests.
C29_QuestsIsolated ==
    /\ BannedIsMarked
    /\ ClosingAfterQuests
    /\ \A q \in Range(QuestFunctions) : Cardinality(Calls(q)) <= 1
    /\ (GalxeOver /\ wf.banned = PyFalse /\ wf.subscribed \in {PyTrue, PyFalse})
          => EachQuestOnce
\* a quest raised, and the other quests and the three closing calls were made
C29_Witness ==
    /\ GalxeOver
    /\ wf.raised = ""
    /\ \E k \in QuestCalls : wf.log[k].outcome = "Exception" /\ k < Len(wf.log) - 4
    /\ EachQuestOnce
    /\ \A c \in Range(ClosingFunctions) : Calls(c) # {}
\* C29 as stated: for an account reported not banned each of the five quests
\* is called exactly once.
C29_Original ==
    /\ BannedIsMarked
    /\ ClosingAfterQuests
    /\ (GalxeOver /\ wf.banned = PyFalse) => EachQuestOnce


\* ----------------------------- modules/irys_onchain.py: handle_balance
\* Balances are in thousandths of an Ether, the amount bridged in
\* ten-thousandths.  The contract, the wallet, the faucet and the
\* transaction each return when called; wf.i is the depth of the calls of
\* handle_balance within one another, which the interpreter limits.
PlatformEnough == 1
WalletEnough == 10
RecursionLimit == 4
PlatformBalances == 0..(PlatformEnough + 1)
WalletBalances == {0, WalletEnough - 1, WalletEnough, WalletEnough + 1}
\* line 48: float(balance_in_irys.Ether) * 0.9
BridgeAmount(balance) == 9 * balance

\* line 35: an invocation from outside
StartHandleBalance ==
    /\ wf.fn = "none"
    /\ calls < MaxActions
    /\ wf' = [NoWf EXCEPT !.fn = "handle_balance", !.pc = "check_platform_balance", !.i = 1]
    /\ calls' = calls + 1
    /\ UNCHANGED <<now, offset, masterUid, creds, client, exch, rq, op, issued, mode,
                   history, infoHistory>>

\* lines 36-39: the balance on the platform has been read
PlatformRead ==
    /\ wf.fn = "handle_balance"
    /\ wf.pc = "check_platform_balance"
    /\ \E balance \in PlatformBalances :
         wf' = IF balance > PlatformEnough
               THEN [wf EXCEPT !.balance_in_platform = balance, !.pc = "done",
                               !.result = PyTrue]
               ELSE [wf EXCEPT !.balance_in_platform = balance, !.pc = "balance"]
    /\ UNCHANGED <<now, offset, masterUid, creds, client, exch, rq, op, issued, calls, mode,
                   history, infoHistory>>

\* lines 40-42 and 48-50: the balance of the wallet has been read
WalletRead ==
    /\ wf.fn = "handle_balance"
    /\ wf.pc = "balance"
    /\ \E balance \in WalletBalances :
         wf' = IF balance < WalletEnough
               THEN [wf EXCEPT !.balance_in_irys = balance, !.pc = "irys_faucet"]
               ELSE [wf EXCEPT !.balance_in_irys = balance, !.pc = "bridge_to_platform",
                               !.amount = BridgeAmount(balance)]
    /\ UNCHANGED <<now, offset, masterUid, creds, client, exch, rq, op, issued, calls, mode,
                   history, infoHistory>>

\* lines 43-47 with irys_faucet lines 18-33: the faucet has answered; after
\* a claim that succeeded handle_balance calls itself
FaucetDone ==
    /\ wf.fn = "handle_balance"
    /\ wf.pc = "irys_faucet"
    /\ \E success \in {PyTrue, PyFalse} :
         LET w == [wf EXCEPT !.faucets = @ + 1, !.faucet = success]
         IN wf' = IF success = PyFalse THEN [w EXCEPT !.pc = "done", !.result = PyFalse]
                  ELSE IF wf.i = RecursionLimit THEN Raised(w, "RecursionError")
                  ELSE [w EXCEPT !.pc = "check_platform_balance", !.i = @ + 1]
    /\ UNCHANGED <<now, offset, masterUid, creds, client, exch, rq, op, issued, calls, mode,
                   history, infoHistory>>

\* bridge_to_platform lines 52-61: the transaction has ended
BridgeDone ==
    /\ wf.fn = "handle_balance"
    /\ wf.pc = "bridge_to_platform"
    /\ \E success \in BOOLEAN :
         wf' = IF success THEN [wf EXCEPT !.pc = "done", !.result = "tx_hash"]
               ELSE Raised(wf, "Exception")
    /\ UNCHANGED <<now, offset, masterUid, creds, client, exch, rq, op, issued, calls, mode,
                   history, infoHistory>>

InitBalance == InitCommon /\ mode = "balance"
NextBalance ==
    StartHandleBalance \/ PlatformRead \/ WalletRead \/ FaucetDone \/ BridgeDone \/ WfReturn
SpecBalance == InitBalance /\ [][NextBalance]_vars

\* ---------------------------------------------------------------- C30
BalanceHandled == wf.fn = "handle_balance" /\ wf.pc = "done"
\* C30: handle_balance ends with true when the platform balance exceeds
\* 0.001, with false when the wallet balance is below 0.01 and the faucet
\* claim failed, and otherwise with the result of bridging.
C30_HandleBalanceResult ==
    BalanceHandled =>
       \/ wf.balance_in_platform > PlatformEnough /\ wf.result = PyTrue /\ wf.raised = ""
       \/ /\ wf.balance_in_platform <= PlatformEnough
          /\ wf.balance_in_irys < WalletEnough
          /\ wf.faucet = PyFalse /\ wf.result = PyFalse /\ wf.raised = ""
       \/ /\ wf.balance_in_platform <= PlatformEnough
          /\ wf.balance_in_irys >= WalletEnough
          /\ wf.amount = BridgeAmount(wf.balance_in_irys)
          /\ \/ wf.result = "tx_hash" /\ wf.raised = ""
             \/ wf.raised = "Exception"

====
